---- MODULE Spec2Model ----
(***************************************************************************)
(* Model of the CameraDatasetGen plugin: the trajectory subsystem (the     *)
(* registry of trajectories and keyframes, CDGTrajectorySubsystem.cpp),    *)
(* the trajectory actor's keyframe list (CDGTrajectory.cpp), the keyframe  *)
(* actor's editor hooks (CDGKeyframe.cpp, CDGKeyframeContextMenu.cpp) and  *)
(* the editor preview state machine (CDGEditorState.cpp).                  *)
(*                                                                         *)
(* Names (FName) are tuples: <<>> is NAME_None, <<"A">> is "A" and         *)
(* Append(n, k) is Printf("%s_%d", n, k), so <<"Trajectory", 1>> is        *)
(* "Trajectory_1".  Actors are small integers, 0 is the null pointer.      *)
(***************************************************************************)
EXTENDS Integers, Sequences, FiniteSets, TLC

\* ---- bounds of the model ----
MaxExports == 2
MaxKeyframes == 3
MaxTrajectoryActors == 9
MaxOrderInput == 3
MaxNameLen == 2
MaxOps == 5
MaxLoads == 1
MaxRenders == 2
MaxJobs == 2

\* ---- program constants ----
PaletteSize == 8
OrderInTrajectoryMin == 0

KF == 1..MaxKeyframes
TR == 1..MaxTrajectoryActors
NoKeyframe == 0
NoTrajectory == 0
NAME_None == <<>>
DefaultColor == 0 - 1

\* names a user can type into a trajectory-name field
UserNames == {<<"A">>, <<"Trajectory", 1>>}

VARIABLES
  kfAlive,                  \* keyframe actor exists in the world
  kfTrajectoryName,         \* ACDGKeyframe::TrajectoryName
  kfPreviousTrajectoryName, \* ACDGKeyframe::PreviousTrajectoryName
  kfOrderInTrajectory,      \* ACDGKeyframe::OrderInTrajectory
  kfShowCameraFrustum,      \* ACDGKeyframe::bShowCameraFrustum
  kfShowTrajectoryLine,     \* ACDGKeyframe::bShowTrajectoryLine
  trAlive,                  \* trajectory actor exists in the world
  trTrajectoryName,         \* ACDGTrajectory::TrajectoryName
  trKeyframes,              \* ACDGTrajectory::Keyframes
  trTrajectoryColor,        \* ACDGTrajectory::TrajectoryColor (palette index)
  trShowTrajectory,         \* ACDGTrajectory::bShowTrajectory
  Trajectories,             \* UCDGTrajectorySubsystem::Trajectories
  AllKeyframes,             \* UCDGTrajectorySubsystem::AllKeyframes
  bHasPerformedInitialRefresh,
  SavedTrajectoryVisualizerStates, \* subsystem: name -> bShowTrajectory
  SavedKeyframeVisualizerStates,   \* subsystem: keyframe -> <<frustum, line>>
  CurrentState,             \* UCDGEditorState::CurrentState
  PreviewedKeyframe,        \* UCDGEditorState::PreviewedKeyframe
  PreviewedTrajectory,      \* UCDGEditorState::PreviewedTrajectory
  CachedViewportSettings,   \* UCDGEditorState::CachedViewportSettings
  ViewportOverlayDelegateHandle, \* TRUE when the handle is valid
  CameraSyncTimerHandle,    \* TRUE when the handle is valid
  RegisteredSyncTimers,     \* timers of SyncKeyframeFromViewport in the timer manager
  ViewportView,             \* location/rotation and FOV of the level viewport
  MenuWindow,               \* FCDGCameraPreviewContextMenu::MenuWindow is valid
  MenuWidget,               \* the keyframe of MenuWidget, NoKeyframe when reset
  bIsClosing,               \* FCDGCameraPreviewContextMenu::bIsClosing
  bWindowClosedPending,     \* a destroyed window's OnWindowClosed is still to come
  ExitPreviewCalls,         \* ExitPreview runs past its guard since the menu was shown
  DestroyRequests,          \* RequestDestroyWindow calls since the menu was shown
  WindowClosedRuns,         \* OnWindowClosed runs past its guard since the menu was shown
  EntryFlags,               \* the visibility flags just before the last preview was entered
  EntryTrajectories,        \* the trajectories alive ever since that moment
  EntryKeyframes,           \* the keyframes alive ever since that moment
  lastOp,                   \* the handler that ran last, with its arguments
  opCount,                  \* how many operations have run
  registrationOrder,        \* trajectories in the order they entered the registry
  LensSettings,             \* ACDGKeyframe::LensSettings of the edited keyframe
  FilmbackSettings,         \* ACDGKeyframe::FilmbackSettings of the edited keyframe
  JsonString,               \* the JSON document last saved or loaded
  CreatedKeyframes,         \* per JSON trajectory entry, the keyframes the load created
  bLoaded,                  \* return value of the last LoadAllTrajectories
  loadCount,                \* how many documents have been loaded
  tmKeyframes,              \* ACDGTrajectory::Keyframes of the timed trajectory
  TotalDuration,            \* return value of the last GetTrajectoryDuration
  FramesArray,              \* return value of the last GenerateFrameData
  FPS,                      \* the FPS argument of the last GenerateFrameData
  TimeInTrajectory,         \* the TimeInTrajectory fields of the last KeyFrames block
  BuiltKeyframeTimes,       \* the KeyframeTimes array of the last GenerateFrameData
  ActiveLevelSequence,      \* UCDGLevelSeqSubsystem::ActiveLevelSequence (its state)
  ShotSequences,            \* per trajectory, the state of its Shot_<name> asset
  FFmpegPaths,              \* the checked paths at which ffmpeg.exe exists
  Queue,                    \* the jobs of the movie pipeline queue
  SubmittedJobs,            \* per RenderQueueWithExecutor call, the jobs rendered
  RenderRequest,            \* arguments of the last RenderTrajectories call
  CreatedJobs,              \* CreatedJobs of the last RenderTrajectoriesWithSequence
  bRenderStarted,           \* return value of the last RenderTrajectories
  OutputDirectory,          \* OutputSetting->OutputDirectory.Path of the jobs last configured
  IndexJsonPath,            \* the path at which the last call wrote Index.json
  bOutputsDirectoryExists,  \* <OutputDir>/OUTPUTS exists
  OutputFiles,              \* the files of OUTPUTS: file name -> size in bytes
  TotalPNGsDeleted,         \* return value of the last ValidateAndCleanupVideoOutput
  FailedToDelete,            \* the frames the last cleanup logged as not deleted
  MasterShotTrack,          \* the sections of the master's cinematic shot track
  MasterPlaybackUpper,      \* upper bound of the master's playback range, in ticks
  ShotPlaybackUpper,        \* per trajectory, the playback upper bound of Shot_<name>
  InsertedShots,            \* the sections the last OnExportClicked inserted
  ExportRequest,            \* selection and settings of the last OnExportClicked
  exportCount               \* how many exports have run

worldVars == <<kfAlive, kfTrajectoryName, kfPreviousTrajectoryName,
               kfOrderInTrajectory, kfShowCameraFrustum, kfShowTrajectoryLine,
               trAlive, trTrajectoryName, trKeyframes, trTrajectoryColor,
               trShowTrajectory, Trajectories, AllKeyframes>>

editorVars == <<SavedTrajectoryVisualizerStates, SavedKeyframeVisualizerStates,
                CurrentState, PreviewedKeyframe, PreviewedTrajectory,
                CachedViewportSettings, ViewportOverlayDelegateHandle,
                CameraSyncTimerHandle, RegisteredSyncTimers, ViewportView,
                MenuWindow, MenuWidget,
                bIsClosing, bWindowClosedPending, ExitPreviewCalls,
                DestroyRequests, WindowClosedRuns, EntryFlags, EntryTrajectories,
                EntryKeyframes>>

lensVars == <<LensSettings, FilmbackSettings>>

\* the state outside the level: one group per part of the plugin
slVars == <<JsonString, CreatedKeyframes, bLoaded, loadCount>>
timingVars == <<tmKeyframes, TotalDuration, FramesArray, FPS, TimeInTrajectory,
                BuiltKeyframeTimes>>
mrqVars == <<ActiveLevelSequence, ShotSequences, FFmpegPaths, Queue, SubmittedJobs,
             RenderRequest, CreatedJobs, bRenderStarted, OutputDirectory, IndexJsonPath>>
cleanupVars == <<bOutputsDirectoryExists, OutputFiles, TotalPNGsDeleted, FailedToDelete>>
exportVars == <<MasterShotTrack, MasterPlaybackUpper, ShotPlaybackUpper, InsertedShots, ExportRequest, exportCount>>
pluginVars == <<lensVars, slVars, timingVars, mrqVars, cleanupVars, exportVars>>

\* ---- generic helpers ----
Min(S) == CHOOSE x \in S : \A y \in S : x <= y
Range(s) == {s[i] : i \in 1..Len(s)}
Contains(s, x) == x \in Range(s)
RemoveAll(s, x) == SelectSeq(s, LAMBDA y : y # x)

RECURSIVE AssignAll(_, _, _)
\* f with f[x] = v for every x in S
AssignAll(f, S, v) ==
  IF S = {} THEN f
  ELSE LET x == CHOOSE y \in S : TRUE
       IN AssignAll([f EXCEPT ![x] = v], S \ {x}, v)

\* The world as one value, so that nested handler calls compose.
\* gone: trajectory actors destroyed by the running handler; ovf: the handler
\* needed more trajectory actors, or a longer name, than the model has;
\* ret: the value a bool handler returns.
World ==
  [ka |-> kfAlive, kn |-> kfTrajectoryName, kp |-> kfPreviousTrajectoryName,
   ko |-> kfOrderInTrajectory, kf |-> kfShowCameraFrustum,
   kl |-> kfShowTrajectoryLine,
   ta |-> trAlive, tn |-> trTrajectoryName, tk |-> trKeyframes,
   tc |-> trTrajectoryColor, ts |-> trShowTrajectory,
   reg |-> Trajectories, all |-> AllKeyframes,
   stv |-> SavedTrajectoryVisualizerStates,
   skv |-> SavedKeyframeVisualizerStates,
   cs |-> CurrentState, pk |-> PreviewedKeyframe, pt |-> PreviewedTrajectory,
   cache |-> CachedViewportSettings, ovl |-> ViewportOverlayDelegateHandle,
   tmr |-> CameraSyncTimerHandle, tmn |-> RegisteredSyncTimers,
   view |-> ViewportView,
   mw |-> MenuWindow, mk |-> MenuWidget, mc |-> bIsClosing,
   mp |-> bWindowClosedPending, mx |-> ExitPreviewCalls, md |-> DestroyRequests,
   mr |-> WindowClosedRuns, ef |-> EntryFlags, et |-> EntryTrajectories,
   ek |-> EntryKeyframes,
   gone |-> {}, UnregisterCalls |-> <<>>, DestroyCalls |-> <<>>,
   ovf |-> FALSE, ret |-> FALSE]

\* What a handler's run depends on besides the program state: closest is the
\* spline key FindBestInsertionOrder gets from the engine, flip the order in
\* which an unstable sort leaves keyframes of equal order.
ClosestKeys == {2 * i + 1 : i \in 0..(MaxKeyframes - 1)}
Env == [closest : ClosestKeys, flip : BOOLEAN]

\* ---- ACDGKeyframe ----
IsAssignedToTrajectory(w, k) == w.kn[k] # NAME_None

\* ---- ACDGTrajectory ----
IsEmpty(w, t) == Len(w.tk[t]) = 0
IsValidTrajectory(w, t) == Len(w.tk[t]) >= 2

\* TArray::Sort by OrderInTrajectory.  The sort is not stable: keyframes with
\* equal orders come out in either relative order (flip).
InsertByOrder(sorted, x, ko, flip) ==
  LET n == Cardinality({i \in 1..Len(sorted) :
                          \/ ko[sorted[i]] < ko[x]
                          \/ ~flip /\ ko[sorted[i]] = ko[x]})
  IN SubSeq(sorted, 1, n) \o <<x>> \o SubSeq(sorted, n + 1, Len(sorted))

RECURSIVE SortFrom(_, _, _, _, _)
SortFrom(s, i, sorted, ko, flip) ==
  IF i > Len(s) THEN sorted
  ELSE SortFrom(s, i + 1, InsertByOrder(sorted, s[i], ko, flip), ko, flip)

SortedByOrder(s, ko, flip) == SortFrom(s, 1, <<>>, ko, flip)

SortKeyframes(w, t, e) ==
  [w EXCEPT !.tk[t] = SortedByOrder(w.tk[t], w.ko, e.flip)]

RebuildSpline(w, t, e) ==
  IF ~IsValidTrajectory(w, t) THEN w ELSE SortKeyframes(w, t, e)

\* Keyframes[i]->OrderInTrajectory = i for every index
RECURSIVE RenumberFrom(_, _, _)
RenumberFrom(ko, ks, i) ==
  IF i > Len(ks) THEN ko
  ELSE RenumberFrom([ko EXCEPT ![ks[i]] = i - 1], ks, i + 1)

\* no renumbering
RenumberSkipped(w, t) == w

RenumberSequentially(w, t) == [w EXCEPT !.ko = RenumberFrom(w.ko, w.tk[t], 1)]

AutoAssignKeyframeOrders(w, t, e) ==
  RebuildSpline(RenumberSequentially(SortKeyframes(w, t, e), t), t, e)

\* no exchange with the keyframe that holds the target order
OnKeyframeOrderManuallyChangedNoSwap(w, t, ChangedKeyframe, e) ==
  RebuildSpline(RenumberSequentially(SortKeyframes(w, t, e), t), t, e)

OnKeyframeOrderManuallyChanged(w, t, ChangedKeyframe, e) ==
  LET ks == w.tk[t]
      TargetOrder == w.ko[ChangedKeyframe]
      UsedOrders == {w.ko[ks[i]] : i \in 1..Len(ks)}
      Missing == {i \in 0..(Len(ks) - 1) : i \notin UsedOrders}
      SrcOrder == IF Missing = {} THEN 0 - 1 ELSE Min(Missing)
      Others == {i \in 1..Len(ks) :
                   ks[i] # ChangedKeyframe /\ w.ko[ks[i]] = TargetOrder}
      w1 == IF ChangedKeyframe # NoKeyframe /\ SrcOrder >= 0 /\ Others # {}
            THEN [w EXCEPT !.ko[ks[Min(Others)]] = SrcOrder]
            ELSE w
  IN RebuildSpline(RenumberSequentially(SortKeyframes(w1, t, e), t), t, e)

\* closest: twice the spline input key closest to the new keyframe's location
\* (the geometry is an input of the model; the engine returns a key >= 0, and
\* halves stand for the keys strictly inside a segment).
FindBestInsertionOrder(w, t, closest) ==
  LET n == Len(w.tk[t])
      Segments == {i \in 0..(n - 2) : 2 * i <= closest /\ closest <= 2 * (i + 1)}
  IN IF n < 2 THEN n
     ELSE IF n = 2
          THEN (IF closest <= 0 THEN 0 ELSE IF closest >= 2 THEN 2 ELSE 1)
     ELSE IF Segments # {} THEN Min(Segments) + 1
     ELSE IF closest < 0 THEN 0
     ELSE n

TrajectoryAddKeyframe(w, t, k, e) ==
  IF Contains(w.tk[t], k) THEN w
  ELSE LET w1 == [w EXCEPT !.tk[t] = Append(w.tk[t], k)]
       IN IF Len(w1.tk[t]) <= 2
          THEN [w1 EXCEPT !.ko[k] = Len(w1.tk[t]) - 1]
          ELSE OnKeyframeOrderManuallyChanged(
                 [w1 EXCEPT !.ko[k] = FindBestInsertionOrder(w1, t, e.closest)],
                 t, NoKeyframe, e)

TrajectoryRemoveKeyframe(w, t, k) ==
  [w EXCEPT !.tk[t] = RemoveAll(w.tk[t], k)]

\* ---- UCDGTrajectorySubsystem ----
\* The TMap Trajectories is the set of its <<key, value>> pairs.
Keys(reg) == {p[1] : p \in reg}
Lookup(reg, n) == (CHOOSE p \in reg : p[1] = n)[2]
\* TMap::Remove
MapRemove(reg, n) == {p \in reg : p[1] # n}
\* TMap::Add: insert or replace
MapAdd(reg, n, t) == MapRemove(reg, n) \cup {<<n, t>>}

HasTrajectory(w, n) == n \in Keys(w.reg)
GetTrajectory(w, n) == IF HasTrajectory(w, n) THEN Lookup(w.reg, n) ELSE NoTrajectory

GetNextTrajectoryColorNoWrap(w) == Cardinality(w.reg)

GetNextTrajectoryColor(w) == Cardinality(w.reg) % PaletteSize

\* Prefix_Counter for the first Counter >= 1 that is not a registry key
GenerateUniqueTrajectoryName(w) ==
  LET Counters == 1..(Cardinality(w.reg) + 1)
  IN <<"Trajectory", Min({c \in Counters : ~HasTrajectory(w, <<"Trajectory", c>>)})>>

RegisterTrajectoryKeepName(w, t) ==
  IF t = NoTrajectory \/ w.tn[t] = NAME_None THEN w
  ELSE IF GetTrajectory(w, w.tn[t]) = t THEN w
  ELSE [w EXCEPT !.tc[t] = GetNextTrajectoryColor(w),
                 !.reg = MapAdd(w.reg, w.tn[t], t)]

RegisterTrajectory(w, t) ==
  IF t = NoTrajectory \/ w.tn[t] = NAME_None THEN w
  ELSE IF GetTrajectory(w, w.tn[t]) = t THEN w
  ELSE LET Suffixes == 1..(Cardinality(w.reg) + 1)
           UniqueName ==
             IF HasTrajectory(w, w.tn[t])
             THEN Append(w.tn[t],
                    Min({c \in Suffixes : ~HasTrajectory(w, Append(w.tn[t], c))}))
             ELSE w.tn[t]
       IN [w EXCEPT !.tn[t] = UniqueName,
                    !.tc[t] = GetNextTrajectoryColor(w),
                    !.reg = MapAdd(w.reg, UniqueName, t),
                    !.ovf = w.ovf \/ Len(UniqueName) > MaxNameLen]

\* UnregisterCalls is the list of the trajectories the running handler passed
\* to UnregisterTrajectory, DestroyCalls the list of the trajectory actors it
\* called Destroy() on
UnregisterTrajectory(w, t) ==
  IF t = NoTrajectory THEN w
  ELSE [w EXCEPT !.reg = MapRemove(w.reg, w.tn[t]),
                 !.UnregisterCalls = Append(@, t)]

\* a trajectory actor the model can spawn: not in the world, not destroyed by
\* the running handler and no longer referenced by the registry
FreeTrajectoryActors(w) ==
  {t \in TR : ~w.ta[t] /\ t \notin w.gone /\ t # w.pt
              /\ \A p \in w.reg : p[2] # t}

\* The result of SpawnTrajectory is the pair <<world, trajectory>>.
SpawnTrajectory(w, n) ==
  IF n = NAME_None THEN <<w, NoTrajectory>>
  ELSE IF HasTrajectory(w, n) THEN <<w, GetTrajectory(w, n)>>
  ELSE LET Existing == {t \in TR : w.ta[t] /\ w.tn[t] = n}
       IN IF Existing # {}
          THEN <<RegisterTrajectory(w, Min(Existing)), Min(Existing)>>
          ELSE IF FreeTrajectoryActors(w) = {}
               THEN <<[w EXCEPT !.ovf = TRUE], NoTrajectory>>
               ELSE LET t == Min(FreeTrajectoryActors(w))
                        w1 == [w EXCEPT !.ta[t] = TRUE, !.tn[t] = n,
                                        !.tk[t] = <<>>, !.tc[t] = DefaultColor,
                                        !.ts[t] = TRUE]
                    IN <<RegisterTrajectory(w1, t), t>>

GetOrCreateTrajectory(w, n) ==
  IF GetTrajectory(w, n) # NoTrajectory
  THEN <<w, GetTrajectory(w, n)>>
  ELSE SpawnTrajectory(w, n)

AddKeyframeToTrajectory(w, k, e) ==
  IF k = NoKeyframe \/ ~IsAssignedToTrajectory(w, k) THEN w
  ELSE LET r == GetOrCreateTrajectory(w, w.kn[k])
       IN IF r[2] = NoTrajectory THEN r[1]
          ELSE RebuildSpline(
                 TrajectoryAddKeyframe(r[1], r[2], k, e), r[2], e)

RemoveKeyframeFromTrajectory(w, k, n, e) ==
  IF k = NoKeyframe \/ n = NAME_None THEN w
  ELSE IF GetTrajectory(w, n) = NoTrajectory THEN w
  ELSE RebuildSpline(TrajectoryRemoveKeyframe(w, GetTrajectory(w, n), k),
                     GetTrajectory(w, n), e)

RECURSIVE DeleteTrajectoryActor(_, _, _)
RECURSIVE DeleteTrajectoryLoop(_, _, _)
RECURSIVE ReassignLoop(_, _, _, _, _)

DeleteTrajectory(w, n, e) ==
  IF GetTrajectory(w, n) # NoTrajectory
  THEN DeleteTrajectoryActor(w, GetTrajectory(w, n), e)
  ELSE w

\* the second loop of CleanupEmptyTrajectories, over TrajectoriesToDelete
DeleteTrajectoryLoop(w, names, e) ==
  IF names = {} THEN w
  ELSE LET n == CHOOSE m \in names : TRUE
       IN DeleteTrajectoryLoop(DeleteTrajectory(w, n, e), names \ {n}, e)

CleanupEmptyTrajectories(w, e) ==
  LET TrajectoriesToDelete ==
        {p[1] : p \in {q \in w.reg : q[2] # NoTrajectory /\ IsEmpty(w, q[2])}}
  IN DeleteTrajectoryLoop(w, TrajectoriesToDelete, e)

OnKeyframeTrajectoryNameChanged(w, k, OldTrajectoryName, e) ==
  IF k = NoKeyframe THEN w
  ELSE LET w1 == IF OldTrajectoryName # NAME_None
                 THEN RemoveKeyframeFromTrajectory(w, k, OldTrajectoryName, e)
                 ELSE w
           w2 == IF IsAssignedToTrajectory(w1, k)
                 THEN AddKeyframeToTrajectory(w1, k, e)
                 ELSE w1
       IN CleanupEmptyTrajectories(w2, e)

\* the loop of DeleteTrajectoryActor over KeyframesCopy, from index i
ReassignLoop(w, t, KeyframesCopy, i, e) ==
  IF i > Len(KeyframesCopy) THEN w
  ELSE LET k == KeyframesCopy[i]
           OldTrajectoryName == w.kn[k]
           w1 == [w EXCEPT !.kn[k] = GenerateUniqueTrajectoryName(w)]
           w2 == TrajectoryRemoveKeyframe(w1, t, k)
           w3 == OnKeyframeTrajectoryNameChanged(w2, k, OldTrajectoryName, e)
       IN ReassignLoop(w3, t, KeyframesCopy, i + 1, e)

DeleteTrajectoryActor(w, t, e) ==
  IF t = NoTrajectory THEN w
  ELSE LET w1 == ReassignLoop(w, t, w.tk[t], 1, e)
           w2 == UnregisterTrajectory(w1, t)
       IN [w2 EXCEPT !.ta[t] = FALSE, !.gone = w2.gone \cup {t},
                     !.DestroyCalls = Append(@, t)]

RegisterKeyframeAgain(w, k, e) ==
  IF k = NoKeyframe THEN w
  ELSE LET w1 == [w EXCEPT !.all = Append(w.all, k)]
           w2 == IF ~IsAssignedToTrajectory(w1, k)
                 THEN [w1 EXCEPT !.kn[k] = GenerateUniqueTrajectoryName(w1)]
                 ELSE w1
       IN AddKeyframeToTrajectory(w2, k, e)

RegisterKeyframe(w, k, e) ==
  IF k = NoKeyframe \/ Contains(w.all, k) THEN w
  ELSE LET w1 == [w EXCEPT !.all = Append(w.all, k)]
           w2 == IF ~IsAssignedToTrajectory(w1, k)
                 THEN [w1 EXCEPT !.kn[k] = GenerateUniqueTrajectoryName(w1)]
                 ELSE w1
       IN AddKeyframeToTrajectory(w2, k, e)

UnregisterKeyframe(w, k, e) ==
  IF k = NoKeyframe THEN w
  ELSE LET w1 == IF IsAssignedToTrajectory(w, k)
                 THEN RemoveKeyframeFromTrajectory(w, k, w.kn[k], e)
                 ELSE w
           w2 == [w1 EXCEPT !.all = RemoveAll(w1.all, k)]
       IN CleanupEmptyTrajectories(w2, e)

\* the trajectory OnKeyframeOrderChanged(k) renumbers, if any
TrajectoryToRenumber(w, k) ==
  IF k = NoKeyframe \/ ~IsAssignedToTrajectory(w, k) THEN NoTrajectory
  ELSE GetTrajectory(w, w.kn[k])

OnKeyframeOrderChanged(w, k, e) ==
  IF TrajectoryToRenumber(w, k) = NoTrajectory THEN w
  ELSE OnKeyframeOrderManuallyChanged(w, TrajectoryToRenumber(w, k), k, e)

OnTrajectoryNameChanged(w, t) ==
  IF t = NoTrajectory THEN w
  ELSE LET OldNames == {p[1] : p \in {q \in w.reg : q[2] = t /\ q[1] # w.tn[t]}}
           OldName == IF OldNames = {} THEN NAME_None
                      ELSE CHOOSE n \in OldNames : TRUE
       IN IF OldName = NAME_None THEN w
          ELSE [w EXCEPT
                  !.reg = MapAdd(MapRemove(w.reg, OldName), w.tn[t], t),
                  !.kn = AssignAll(w.kn, Range(w.tk[t]), w.tn[t])]

RECURSIVE RefreshAllTrajectories(_, _)
\* TActorIterator<ACDGTrajectory>, from actor t on
RefreshAllTrajectories(w, t) ==
  IF t > MaxTrajectoryActors THEN w
  ELSE RefreshAllTrajectories(IF w.ta[t] THEN RegisterTrajectory(w, t) ELSE w, t + 1)

RECURSIVE RefreshAllKeyframes(_, _, _)
\* TActorIterator<ACDGKeyframe> in RefreshAll, from actor k on
RefreshAllKeyframes(w, k, e) ==
  IF k > MaxKeyframes THEN w
  ELSE IF ~w.ka[k] THEN RefreshAllKeyframes(w, k + 1, e)
  ELSE LET w1 == [w EXCEPT !.all = Append(w.all, k)]
           w2 == IF ~IsAssignedToTrajectory(w1, k)
                 THEN [w1 EXCEPT !.kn[k] = GenerateUniqueTrajectoryName(w1)]
                 ELSE w1
       IN RefreshAllKeyframes(AddKeyframeToTrajectory(w2, k, e), k + 1, e)

RECURSIVE RebuildLoop(_, _, _)
RebuildLoop(w, names, e) ==
  IF names = {} THEN w
  ELSE LET n == CHOOSE m \in names : TRUE
       IN RebuildLoop(IF GetTrajectory(w, n) # NoTrajectory
                      THEN RebuildSpline(w, GetTrajectory(w, n), e) ELSE w,
                      names \ {n}, e)

RebuildAllSplines(w, e) == RebuildLoop(w, Keys(w.reg), e)

RefreshAll(w, e) ==
  LET w1 == [w EXCEPT !.all = <<>>, !.reg = {}]
      w2 == RefreshAllTrajectories(w1, 1)
      w3 == RefreshAllKeyframes(w2, 1, e)
  IN RebuildAllSplines(CleanupEmptyTrajectories(w3, e), e)

Tick(w, refreshed, e) ==
  CleanupEmptyTrajectories(IF ~refreshed THEN RefreshAll(w, e) ELSE w, e)

\* ACDGTrajectory::ValidateKeyframes
ValidateKeyframes(w, t, e) ==
  SortKeyframes([w EXCEPT !.tk[t] = SelectSeq(w.tk[t], LAMBDA k : w.ka[k])], t, e)

RECURSIVE ValidateLoop(_, _, _)
ValidateLoop(w, names, e) ==
  IF names = {} THEN w
  ELSE LET n == CHOOSE m \in names : TRUE
       IN ValidateLoop(IF GetTrajectory(w, n) # NoTrajectory
                       THEN ValidateKeyframes(w, GetTrajectory(w, n), e) ELSE w,
                       names \ {n}, e)

ValidateAllTrajectories(w, e) ==
  CleanupEmptyTrajectories(ValidateLoop(w, Keys(w.reg), e), e)

\* ---- visualizer control (UCDGTrajectorySubsystem) ----
DisableAllVisualizers(w) ==
  LET Trs == {p[2] : p \in w.reg} \ {NoTrajectory}
      Kfs == Range(w.all) \ {NoKeyframe}
  IN [w EXCEPT
        !.stv = {<<p[1], w.ts[p[2]]>> : p \in {q \in w.reg : q[2] # NoTrajectory}},
        !.skv = {<<k, <<w.kf[k], w.kl[k]>>>> : k \in Kfs},
        !.ts = AssignAll(w.ts, Trs, FALSE),
        !.kf = AssignAll(w.kf, Kfs, FALSE),
        !.kl = AssignAll(w.kl, Kfs, FALSE)]

RECURSIVE RestoreTrajectoryLoop(_, _)
RestoreTrajectoryLoop(w, saved) ==
  IF saved = {} THEN w
  ELSE LET p == CHOOSE q \in saved : TRUE
           t == GetTrajectory(w, p[1])
       IN RestoreTrajectoryLoop(
            IF t # NoTrajectory THEN [w EXCEPT !.ts[t] = p[2]] ELSE w,
            saved \ {p})

RECURSIVE RestoreKeyframeLoop(_, _)
RestoreKeyframeLoop(w, saved) ==
  IF saved = {} THEN w
  ELSE LET p == CHOOSE q \in saved : TRUE
       IN RestoreKeyframeLoop(
            IF w.ka[p[1]]
            THEN [w EXCEPT !.kf[p[1]] = p[2][1], !.kl[p[1]] = p[2][2]]
            ELSE w,
            saved \ {p})

RestoreVisualizerStates(w) ==
  [RestoreKeyframeLoop(RestoreTrajectoryLoop(w, w.stv), w.skv)
     EXCEPT !.stv = {}, !.skv = {}]

\* ---- UCDGEditorState ----
DISABLED == "DISABLED"
PREVIEW_CAMERA == "PREVIEW_CAMERA"
PREVIEW_TRAJECTORY == "PREVIEW_TRAJECTORY"

\* views of the level viewport: where the user left it, a default-constructed
\* snapshot, the pose and FOV of keyframe k, the pose 200 units behind k
UserView == [Location |-> <<"user">>, FOV |-> <<"user">>]
ZeroView == [Location |-> <<"zero">>, FOV |-> <<"default">>]
KeyframeView(k) == [Location |-> <<"keyframe", k>>, FOV |-> <<"keyframe", k>>]

\* vp: GetActiveViewportClient() returns a viewport client
CacheViewportSettings(w, vp) ==
  IF ~vp THEN [w EXCEPT !.ret = FALSE]
  ELSE [w EXCEPT !.cache = [View |-> w.view, bIsValid |-> TRUE], !.ret = TRUE]

RestoreViewportSettings(w, vp) ==
  IF ~w.cache.bIsValid THEN [w EXCEPT !.ret = FALSE]
  ELSE IF ~vp THEN [w EXCEPT !.ret = FALSE]
  ELSE [w EXCEPT !.view = w.cache.View, !.cache.bIsValid = FALSE, !.ret = TRUE]

ApplyKeyframeCameraToViewport(w, k, vp) ==
  IF k = NoKeyframe THEN [w EXCEPT !.ret = FALSE]
  ELSE IF ~vp THEN [w EXCEPT !.ret = FALSE]
  ELSE [w EXCEPT !.view = KeyframeView(k), !.ret = TRUE]

UnregisterViewportOverlay(w) == IF w.ovl THEN [w EXCEPT !.ovl = FALSE] ELSE w
RegisterViewportOverlay(w) == [UnregisterViewportOverlay(w) EXCEPT !.ovl = TRUE]

\* StopCameraSyncTimer that leaves the timer registered
StopCameraSyncTimerKeepsTimer(w) == w

\* ClearTimer removes the timer of the handle, Invalidate resets the handle
StopCameraSyncTimer(w) ==
  IF ~w.tmr THEN w ELSE [w EXCEPT !.tmr = FALSE, !.tmn = @ - 1]

\* SetTimer registers a looping timer and makes the handle valid
StartCameraSyncTimer(w) ==
  [StopCameraSyncTimer(w) EXCEPT !.tmr = TRUE, !.tmn = @ + 1]

PositionCameraBehindKeyframe(w, k, vp) ==
  IF k = NoKeyframe THEN w
  ELSE IF ~vp THEN w
  ELSE [w EXCEPT !.view = [Location |-> <<"behind", k>>,
                           FOV |-> IF w.cache.bIsValid THEN w.cache.View.FOV
                                   ELSE <<"default">>]]

RebuildTrajectorySpline(w, n, e) ==
  IF GetTrajectory(w, n) # NoTrajectory
  THEN RebuildSpline(w, GetTrajectory(w, n), e) ELSE w

\* ---- FCDGCameraPreviewContextMenu: the camera preview menu window ----
\* HideMenu that does not look at bIsClosing
HideMenuUnguarded(w) ==
  IF w.mw
  THEN [w EXCEPT !.md = @ + 1, !.mp = TRUE, !.mw = FALSE, !.mk = NoKeyframe,
                 !.mc = FALSE]
  ELSE [w EXCEPT !.mk = NoKeyframe, !.mc = FALSE]

\* RequestDestroyWindow leaves the window's OnWindowClosed to the host; while
\* HideMenu runs that callback returns at its guard
HideMenu(w) ==
  IF w.mc THEN w
  ELSE IF w.mw
  THEN [w EXCEPT !.md = @ + 1, !.mp = TRUE, !.mw = FALSE, !.mk = NoKeyframe]
  ELSE [w EXCEPT !.mk = NoKeyframe]

ShowMenu(w, Keyframe) ==
  IF Keyframe = NoKeyframe THEN w
  ELSE [HideMenu(w) EXCEPT !.mc = FALSE, !.mk = Keyframe, !.mw = TRUE,
                           !.mx = 0, !.md = 0, !.mr = 0]

\* EnterCameraPreview that leaves the visualizers disabled when applying the
\* keyframe camera fails
EnterCameraPreviewNoRollback(w, Keyframe, vp) ==
  IF Keyframe = NoKeyframe THEN [w EXCEPT !.ret = FALSE]
  ELSE IF w.cs # DISABLED THEN [w EXCEPT !.ret = FALSE]
  ELSE LET w1 == CacheViewportSettings(w, vp[1])
       IN IF ~w1.ret THEN [w1 EXCEPT !.ret = FALSE]
          ELSE LET w2 == DisableAllVisualizers(w1)
                   w3 == ApplyKeyframeCameraToViewport(w2, Keyframe, vp[2])
               IN IF ~w3.ret
                  THEN [RestoreViewportSettings(w3, vp[3]) EXCEPT !.ret = FALSE]
                  ELSE [ShowMenu(StartCameraSyncTimer(RegisterViewportOverlay(
                          [w3 EXCEPT !.cs = PREVIEW_CAMERA, !.pk = Keyframe])),
                          Keyframe)
                          EXCEPT !.ret = TRUE]

\* EnterCameraPreview without the check of the current state
\* (vp are the results of its successive GetActiveViewportClient calls)
EnterCameraPreviewUnguarded(w, Keyframe, vp) ==
  IF Keyframe = NoKeyframe THEN [w EXCEPT !.ret = FALSE]
  ELSE LET w1 == CacheViewportSettings(w, vp[1])
       IN IF ~w1.ret THEN [w1 EXCEPT !.ret = FALSE]
          ELSE LET w2 == DisableAllVisualizers(w1)
                   w3 == ApplyKeyframeCameraToViewport(w2, Keyframe, vp[2])
               IN IF ~w3.ret
                  THEN [RestoreVisualizerStates(RestoreViewportSettings(w3, vp[3]))
                          EXCEPT !.ret = FALSE]
                  ELSE [ShowMenu(StartCameraSyncTimer(RegisterViewportOverlay(
                          [w3 EXCEPT !.cs = PREVIEW_CAMERA, !.pk = Keyframe])),
                          Keyframe)
                          EXCEPT !.ret = TRUE]

EnterCameraPreview(w, Keyframe, vp) ==
  IF Keyframe = NoKeyframe THEN [w EXCEPT !.ret = FALSE]
  ELSE IF w.cs # DISABLED THEN [w EXCEPT !.ret = FALSE]
  ELSE LET w1 == CacheViewportSettings(w, vp[1])
       IN IF ~w1.ret THEN [w1 EXCEPT !.ret = FALSE]
          ELSE LET w2 == DisableAllVisualizers(w1)
                   w3 == ApplyKeyframeCameraToViewport(w2, Keyframe, vp[2])
               IN IF ~w3.ret
                  THEN [RestoreVisualizerStates(RestoreViewportSettings(w3, vp[3]))
                          EXCEPT !.ret = FALSE]
                  ELSE [ShowMenu(StartCameraSyncTimer(RegisterViewportOverlay(
                          [w3 EXCEPT !.cs = PREVIEW_CAMERA, !.pk = Keyframe])),
                          Keyframe)
                          EXCEPT !.ret = TRUE]

\* EnterTrajectoryPreview without the check of the current state
EnterTrajectoryPreviewUnguarded(w, Trajectory, vp) ==
  IF Trajectory = NoTrajectory THEN [w EXCEPT !.ret = FALSE]
  ELSE LET w1 == CacheViewportSettings(w, vp)
       IN IF ~w1.ret THEN [w1 EXCEPT !.ret = FALSE]
          ELSE [DisableAllVisualizers(w1)
                  EXCEPT !.cs = PREVIEW_TRAJECTORY, !.pt = Trajectory,
                         !.ret = TRUE]

EnterTrajectoryPreview(w, Trajectory, vp) ==
  IF Trajectory = NoTrajectory THEN [w EXCEPT !.ret = FALSE]
  ELSE IF w.cs # DISABLED THEN [w EXCEPT !.ret = FALSE]
  ELSE LET w1 == CacheViewportSettings(w, vp)
       IN IF ~w1.ret THEN [w1 EXCEPT !.ret = FALSE]
          ELSE [DisableAllVisualizers(w1)
                  EXCEPT !.cs = PREVIEW_TRAJECTORY, !.pt = Trajectory,
                         !.ret = TRUE]

\* ExitPreview that leaves the previewed-keyframe reference set
ExitPreviewKeepsKeyframe(w, vp, e) ==
  IF w.cs = DISABLED THEN [w EXCEPT !.ret = FALSE]
  ELSE LET w1 == StopCameraSyncTimer(w)
           bPositionedCameraBehindKeyframe ==
             w.cs = PREVIEW_CAMERA /\ w.pk # NoKeyframe /\ w.ka[w.pk]
           w2 == IF bPositionedCameraBehindKeyframe
                 THEN PositionCameraBehindKeyframe(
                        IF w1.kn[w1.pk] # NAME_None
                        THEN RebuildTrajectorySpline(w1, w1.kn[w1.pk], e)
                        ELSE w1,
                        w1.pk, vp)
                 ELSE w1
           w3 == HideMenu([UnregisterViewportOverlay(w2) EXCEPT !.mx = @ + 1])
           w4 == IF ~bPositionedCameraBehindKeyframe
                 THEN RestoreViewportSettings(w3, vp) ELSE w3
       IN [RestoreVisualizerStates(w4)
             EXCEPT !.cs = DISABLED, !.pt = NoTrajectory, !.ret = TRUE]

\* ExitPreview that restores the cached viewport settings after positioning
\* the camera behind the keyframe too
ExitPreviewAlwaysRestores(w, vp, e) ==
  IF w.cs = DISABLED THEN [w EXCEPT !.ret = FALSE]
  ELSE LET w1 == StopCameraSyncTimer(w)
           bPositionedCameraBehindKeyframe ==
             w.cs = PREVIEW_CAMERA /\ w.pk # NoKeyframe /\ w.ka[w.pk]
           w2 == IF bPositionedCameraBehindKeyframe
                 THEN PositionCameraBehindKeyframe(
                        IF w1.kn[w1.pk] # NAME_None
                        THEN RebuildTrajectorySpline(w1, w1.kn[w1.pk], e)
                        ELSE w1,
                        w1.pk, vp)
                 ELSE w1
           w3 == HideMenu([UnregisterViewportOverlay(w2) EXCEPT !.mx = @ + 1])
           w4 == RestoreViewportSettings(w3, vp)
       IN [RestoreVisualizerStates(w4)
             EXCEPT !.cs = DISABLED, !.pk = NoKeyframe, !.pt = NoTrajectory,
                    !.ret = TRUE]

ExitPreview(w, vp, e) ==
  IF w.cs = DISABLED THEN [w EXCEPT !.ret = FALSE]
  ELSE LET w1 == StopCameraSyncTimer(w)
           bPositionedCameraBehindKeyframe ==
             w.cs = PREVIEW_CAMERA /\ w.pk # NoKeyframe /\ w.ka[w.pk]
           w2 == IF bPositionedCameraBehindKeyframe
                 THEN PositionCameraBehindKeyframe(
                        IF w1.kn[w1.pk] # NAME_None
                        THEN RebuildTrajectorySpline(w1, w1.kn[w1.pk], e)
                        ELSE w1,
                        w1.pk, vp)
                 ELSE w1
           w3 == HideMenu([UnregisterViewportOverlay(w2) EXCEPT !.mx = @ + 1])
           w4 == IF ~bPositionedCameraBehindKeyframe
                 THEN RestoreViewportSettings(w3, vp) ELSE w3
       IN [RestoreVisualizerStates(w4)
             EXCEPT !.cs = DISABLED, !.pk = NoKeyframe, !.pt = NoTrajectory,
                    !.ret = TRUE]

\* the weak keyframe pointer of the menu widget
WidgetKeyframe(w) ==
  IF w.mk # NoKeyframe /\ w.ka[w.mk] THEN w.mk ELSE NoKeyframe

\* the window-closed callback of the menu window
OnWindowClosed(w, vp, e) ==
  IF w.mc THEN w
  ELSE [(IF WidgetKeyframe(w) # NoKeyframe /\ w.cs = PREVIEW_CAMERA
         THEN ExitPreview([w EXCEPT !.mc = TRUE, !.mr = @ + 1], vp, e)
         ELSE [w EXCEPT !.mc = TRUE, !.mr = @ + 1])
          EXCEPT !.mw = FALSE, !.mk = NoKeyframe, !.mc = FALSE]

\* the Exit Preview button of the menu widget
OnExitPreviewClicked(w, vp, e) ==
  IF WidgetKeyframe(w) # NoKeyframe THEN ExitPreview(w, vp, e) ELSE w

IsMenuVisible(w) == w.mw /\ w.mk # NoKeyframe

\* a state poll that leaves the menu as it is
CheckEditorStateNoHide(w) == w

\* the 10 Hz state poll of the menu
CheckEditorState(w) ==
  IF w.cs = PREVIEW_CAMERA THEN w
  ELSE IF IsMenuVisible(w) THEN HideMenu(w) ELSE w

\* a preview was entered: the flags and actors of the state before the call
NoteEntry(w0, w) ==
  IF ~w.ret THEN w
  ELSE [w EXCEPT !.ef = [ts |-> w0.ts, kf |-> w0.kf, kl |-> w0.kl],
                 !.et = {t \in TR : w0.ta[t]},
                 !.ek = {k \in KF : w0.ka[k]}]

\* ---- camera lens and filmback of a keyframe ----
\* Floats are exact fractions <<numerator, denominator>> in lowest terms.
\* FieldOfView is kept as tan(FieldOfView / 2), which grows with the angle,
\* so FOV = 2 * atan(x) is the fraction x and tan(FOV / 2) is the stored value.
RECURSIVE GCD(_, _)
GCD(a, b) == IF b = 0 THEN a ELSE GCD(b, a % b)

Frac(n, d) == <<n \div GCD(n, d), d \div GCD(n, d)>>
Whole(n) == <<n, 1>>
FracDiv(a, b) == Frac(a[1] * b[2], a[2] * b[1])
FracLess(a, b) == a[1] * b[2] < b[1] * a[2]
FracMax(a, b) == IF FracLess(a, b) THEN b ELSE a
FracClamp(x, lo, hi) == IF FracLess(x, lo) THEN lo ELSE IF FracLess(hi, x) THEN hi ELSE x
IsPositive(a) == a[1] > 0

FocalLengthMin == Whole(4)
FocalLengthMax == Whole(1000)
\* tan(2.5 degrees) and tan(85 degrees)
FieldOfViewMin == Frac(437, 10000)
FieldOfViewMax == Frac(1143, 100)
SensorWidthMin == Whole(1)
SensorWidthMax == Whole(100)
SensorAspectRatioMin == Frac(1, 10)
SensorAspectRatioMax == Whole(10)
\* 90 degrees
DefaultFieldOfView == Whole(1)
DefaultFocalLength == Whole(35)

CalculateFOVFromFocalLength(L, F) ==
  IF IsPositive(L.FocalLength) /\ IsPositive(F.SensorWidth)
  THEN FracDiv(F.SensorWidth, FracDiv(L.FocalLength, Frac(1, 2)))
  ELSE DefaultFieldOfView

CalculateFocalLengthFromFOV(L, F) ==
  IF IsPositive(L.FieldOfView) /\ IsPositive(F.SensorWidth)
  THEN FracDiv(F.SensorWidth, FracDiv(L.FieldOfView, Frac(1, 2)))
  ELSE DefaultFocalLength

UpdateFOVFromFocalLength(L, F) ==
  [L EXCEPT !.FieldOfView = CalculateFOVFromFocalLength(L, F)]

UpdateFocalLengthFromFOV(L, F) ==
  [L EXCEPT !.FocalLength = CalculateFocalLengthFromFOV(L, F)]

\* SensorHeight is locked to SensorWidth / SensorAspectRatio
UpdateSensorHeight(F) ==
  IF IsPositive(F.SensorAspectRatio)
  THEN [F EXCEPT !.SensorHeight = FracDiv(F.SensorWidth, F.SensorAspectRatio)]
  ELSE F

LensProperties == {"FocalLength", "FieldOfView", "SensorWidth", "SensorAspectRatio"}

\* values typed into the numeric field of a property
LensInputs(prop) ==
  CASE prop = "FocalLength" -> {Whole(2), Whole(24), Whole(50)}
    [] prop = "FieldOfView" -> {Whole(1), Frac(1, 2), Whole(20)}
    [] prop = "SensorWidth" -> {Frac(1, 2), Whole(24), Whole(36)}
    [] prop = "SensorAspectRatio" -> {Frac(4, 3), Frac(16, 9)}

\* the details panel stores the typed value clamped to ClampMin/ClampMax
PropertyPanelStore(L, F, prop, v) ==
  CASE prop = "FocalLength" -> <<[L EXCEPT !.FocalLength = v], F>>
    [] prop = "FieldOfView" ->
         <<[L EXCEPT !.FieldOfView = FracClamp(v, FieldOfViewMin, FieldOfViewMax)], F>>
    [] prop = "SensorWidth" ->
         <<L, [F EXCEPT !.SensorWidth = FracClamp(v, SensorWidthMin, SensorWidthMax)]>>
    [] prop = "SensorAspectRatio" ->
         <<L, [F EXCEPT !.SensorAspectRatio =
                 FracClamp(v, SensorAspectRatioMin, SensorAspectRatioMax)]>>

\* ACDGKeyframe::PostEditChangeProperty for a lens or filmback property
KeyframePostEditChangeLens(L, F, prop) ==
  CASE prop = "FieldOfView" -> <<UpdateFocalLengthFromFOV(L, F), F>>
    [] prop = "FocalLength" -> <<UpdateFOVFromFocalLength(L, F), F>>
    [] prop \in {"SensorWidth", "SensorAspectRatio"} ->
         <<UpdateFOVFromFocalLength(L, UpdateSensorHeight(F)), UpdateSensorHeight(F)>>

\* OnValueCommitted of the lens and filmback rows of the keyframe context menu
KeyframeContextMenuCommit(L, F, prop, v) ==
  CASE prop = "FocalLength" ->
         <<UpdateFOVFromFocalLength(
             [L EXCEPT !.FocalLength = FracClamp(v, FocalLengthMin, FocalLengthMax)], F), F>>
    [] prop = "FieldOfView" ->
         <<UpdateFocalLengthFromFOV(
             [L EXCEPT !.FieldOfView = FracClamp(v, FieldOfViewMin, FieldOfViewMax)], F), F>>
    [] prop = "SensorWidth" ->
         <<L, UpdateSensorHeight([F EXCEPT !.SensorWidth = FracMax(SensorWidthMin, v)])>>
    [] prop = "SensorAspectRatio" ->
         <<L, UpdateSensorHeight(
                [F EXCEPT !.SensorAspectRatio = FracMax(SensorAspectRatioMin, v)])>>

\* OnValueCommitted of the lens and filmback rows of the camera preview menu
CameraPreviewMenuCommit(L, F, prop, v) ==
  CASE prop = "FocalLength" ->
         <<UpdateFOVFromFocalLength(
             [L EXCEPT !.FocalLength = FracClamp(v, FocalLengthMin, FocalLengthMax)], F), F>>
    [] prop = "FieldOfView" ->
         <<UpdateFocalLengthFromFOV(
             [L EXCEPT !.FieldOfView = FracClamp(v, FieldOfViewMin, FieldOfViewMax)], F), F>>
    [] prop = "SensorWidth" ->
         <<L, UpdateSensorHeight([F EXCEPT !.SensorWidth = FracMax(SensorWidthMin, v)])>>
    [] prop = "SensorAspectRatio" ->
         <<L, UpdateSensorHeight(
                [F EXCEPT !.SensorAspectRatio = FracMax(SensorAspectRatioMin, v)])>>

\* the lens of a keyframe as the constructor leaves it
ConstructedFilmback ==
  [SensorWidth |-> Frac(2489, 100), SensorHeight |-> Frac(1867, 100),
   SensorAspectRatio |-> Frac(133, 100)]

ConstructedLens ==
  UpdateFOVFromFocalLength(
    [FocalLength |-> Whole(35), FieldOfView |-> Frac(5443, 100)], ConstructedFilmback)

LensInit ==
  /\ LensSettings = ConstructedLens
  /\ FilmbackSettings = ConstructedFilmback

\* ---- state of the parts of the plugin outside the level registry ----
\* the trajectories handed to the renderer; 0 is a null pointer
RenderTrajectoryIds == {1, 2}

\* the empty FString as a path; a path is the sequence of its parts
NoPath == <<>>

\* RenderTrajectories has not been called
NoRequest ==
  [Trajectories |-> <<>>,
   Config |-> [DestinationRootDir |-> "", ExportFormat |-> "PNG_Sequence"],
   MasterSequence |-> "none"]

\* no sequence exported, no encoder installed, an empty render queue
MRQInit ==
  /\ ActiveLevelSequence = "none"
  /\ ShotSequences = [t \in RenderTrajectoryIds |-> "none"]
  /\ FFmpegPaths = {}
  /\ Queue = <<>>
  /\ SubmittedJobs = <<>>
  /\ RenderRequest = NoRequest
  /\ CreatedJobs = <<>>
  /\ bRenderStarted = FALSE
  /\ OutputDirectory = NoPath
  /\ IndexJsonPath = NoPath

\* no call has returned a value yet
NoResult == <<>>

TimingInit ==
  /\ tmKeyframes = <<>>
  /\ TotalDuration = NoResult
  /\ FramesArray = NoResult
  /\ FPS = 0
  /\ TimeInTrajectory = NoResult
  /\ BuiltKeyframeTimes = NoResult

\* nothing has been rendered: no OUTPUTS directory
CleanupInit ==
  /\ bOutputsDirectoryExists = FALSE
  /\ OutputFiles = [f \in {} |-> 0]
  /\ TotalPNGsDeleted = 0
  /\ FailedToDelete = {}

\* the trajectories listed in the exporter window
ExportTrajectoryIds == {1, 2, 3}

\* OnExportClicked has not run
NoExport == [Trajectories |-> <<>>, bClearSequence |-> FALSE, FPS |-> 0]

\* a master sequence as the factory creates it: no track, an empty playback range
ExportInit ==
  /\ MasterShotTrack = <<>>
  /\ MasterPlaybackUpper = 0
  /\ ShotPlaybackUpper = [t \in ExportTrajectoryIds |-> 0]
  /\ InsertedShots = <<>>
  /\ ExportRequest = NoExport
  /\ exportCount = 0

auxVars == <<registrationOrder, pluginVars>>

AuxInit ==
  /\ registrationOrder = <<>>
  /\ LensInit
  /\ JsonString = <<>>
  /\ CreatedKeyframes = <<>>
  /\ bLoaded = FALSE
  /\ loadCount = 0
  /\ TimingInit
  /\ MRQInit
  /\ CleanupInit
  /\ ExportInit

\* ---- the state after construction: an empty level ----
NoOp == [op |-> "Init", k |-> NoKeyframe, t |-> NoTrajectory, v |-> 0]

Init ==
  /\ kfAlive = [k \in KF |-> FALSE]
  /\ kfTrajectoryName = [k \in KF |-> NAME_None]
  /\ kfPreviousTrajectoryName = [k \in KF |-> NAME_None]
  /\ kfOrderInTrajectory = [k \in KF |-> 0]
  /\ kfShowCameraFrustum = [k \in KF |-> TRUE]
  /\ kfShowTrajectoryLine = [k \in KF |-> TRUE]
  /\ trAlive = [t \in TR |-> FALSE]
  /\ trTrajectoryName = [t \in TR |-> NAME_None]
  /\ trKeyframes = [t \in TR |-> <<>>]
  /\ trTrajectoryColor = [t \in TR |-> DefaultColor]
  /\ trShowTrajectory = [t \in TR |-> TRUE]
  /\ Trajectories = {}
  /\ AllKeyframes = <<>>
  /\ bHasPerformedInitialRefresh = FALSE
  /\ SavedTrajectoryVisualizerStates = {}
  /\ SavedKeyframeVisualizerStates = {}
  /\ CurrentState = DISABLED
  /\ PreviewedKeyframe = NoKeyframe
  /\ PreviewedTrajectory = NoTrajectory
  /\ CachedViewportSettings = [View |-> ZeroView, bIsValid |-> FALSE]
  /\ ViewportOverlayDelegateHandle = FALSE
  /\ CameraSyncTimerHandle = FALSE
  /\ RegisteredSyncTimers = 0
  /\ ViewportView = UserView
  /\ MenuWindow = FALSE
  /\ MenuWidget = NoKeyframe
  /\ bIsClosing = FALSE
  /\ bWindowClosedPending = FALSE
  /\ ExitPreviewCalls = 0
  /\ DestroyRequests = 0
  /\ WindowClosedRuns = 0
  /\ EntryFlags = [ts |-> [t \in TR |-> TRUE], kf |-> [k \in KF |-> TRUE],
                   kl |-> [k \in KF |-> TRUE]]
  /\ EntryTrajectories = {}
  /\ EntryKeyframes = {}
  /\ lastOp = NoOp
  /\ opCount = 0
  /\ AuxInit

\* Actors that no longer exist keep no state: a destroyed trajectory actor, and
\* a destroyed keyframe that no list references any more, are reset to the
\* values of a newly constructed actor.
KeyframeReferenced(w, k) ==
  \/ Contains(w.all, k)
  \/ \E t \in TR : w.ta[t] /\ Contains(w.tk[t], k)
  \/ w.pk = k
  \/ w.mk = k
  \/ \E p \in w.skv : p[1] = k

Collected(w) ==
  LET GoneK == {k \in KF : ~w.ka[k] /\ ~KeyframeReferenced(w, k)}
      GoneT == {t \in TR : ~w.ta[t]}
  IN [w EXCEPT
        !.kn = AssignAll(w.kn, GoneK, NAME_None),
        !.kp = AssignAll(w.kp, GoneK, NAME_None),
        !.ko = AssignAll(w.ko, GoneK, 0),
        !.kf = AssignAll(w.kf, GoneK, TRUE),
        !.kl = AssignAll(w.kl, GoneK, TRUE),
        !.tn = AssignAll(w.tn, GoneT, NAME_None),
        !.tk = AssignAll(w.tk, GoneT, <<>>),
        !.tc = AssignAll(w.tc, GoneT, DefaultColor),
        !.ts = AssignAll(w.ts, GoneT, TRUE)]

\* the handler's result becomes the next state
Assign(w0) ==
  \E w \in {Collected(w0)} :
     /\ ~w0.ovf
     /\ kfAlive' = w.ka
     /\ kfTrajectoryName' = w.kn
     /\ kfPreviousTrajectoryName' = w.kp
     /\ kfOrderInTrajectory' = w.ko
     /\ kfShowCameraFrustum' = w.kf
     /\ kfShowTrajectoryLine' = w.kl
     /\ trAlive' = w.ta
     /\ trTrajectoryName' = w.tn
     /\ trKeyframes' = w.tk
     /\ trTrajectoryColor' = w.tc
     /\ trShowTrajectory' = w.ts
     /\ Trajectories' = w.reg
     /\ AllKeyframes' = w.all
     /\ SavedTrajectoryVisualizerStates' = w.stv
     /\ SavedKeyframeVisualizerStates' = w.skv
     /\ CurrentState' = w.cs
     /\ PreviewedKeyframe' = w.pk
     /\ PreviewedTrajectory' = w.pt
     /\ CachedViewportSettings' = w.cache
     /\ ViewportOverlayDelegateHandle' = w.ovl
     /\ CameraSyncTimerHandle' = w.tmr
     /\ RegisteredSyncTimers' = w.tmn
     /\ ViewportView' = w.view
     /\ MenuWindow' = w.mw
     /\ MenuWidget' = w.mk
     /\ bIsClosing' = w.mc
     /\ bWindowClosedPending' = w.mp
     /\ ExitPreviewCalls' = w.mx
     /\ DestroyRequests' = w.md
     /\ WindowClosedRuns' = w.mr
     /\ EntryFlags' = w.ef
     /\ EntryTrajectories' = {t \in w.et : w.ta[t]}
     /\ EntryKeyframes' = {k \in w.ek : w.ka[k]}

\* one more of the MaxOps operations the model runs
Commit(w0) == Assign(w0) /\ opCount' = opCount + 1 /\ UNCHANGED auxVars

Op(name, k, t, v) == [op |-> name, k |-> k, t |-> t, v |-> v]

FreeKeyframeActors == {k \in KF : ~kfAlive[k] /\ ~KeyframeReferenced(World, k)}

\* a keyframe actor as its constructor leaves it
Constructed(w, k) ==
  [w EXCEPT !.ka[k] = TRUE, !.kn[k] = NAME_None, !.kp[k] = NAME_None,
            !.ko[k] = 0, !.kf[k] = TRUE, !.kl[k] = TRUE]

\* ACDGKeyframe::PostActorCreated
PostActorCreated(w, k, e) ==
  LET w1 == IF w.kn[k] = NAME_None
            THEN [w EXCEPT !.kn[k] = GenerateUniqueTrajectoryName(w)]
            ELSE w
      w2 == [w1 EXCEPT !.kp[k] = w1.kn[k]]
  IN RegisterKeyframe(w2, k, e)

\* ACDGKeyframe::PostEditImport
PostEditImport(w, k, e) ==
  LET w1 == IF w.kn[k] # w.kp[k] /\ w.kp[k] # NAME_None
            THEN OnKeyframeTrajectoryNameChanged(w, k, w.kp[k], e)
            ELSE w
  IN [w1 EXCEPT !.kp[k] = w1.kn[k]]

\* ACDGKeyframe::PostEditChangeProperty, TrajectoryName edited to n
KeyframePostEditChangeTrajectoryName(w, k, n, e) ==
  LET w1 == [w EXCEPT !.kn[k] = n]
      w2 == IF w1.kn[k] = NAME_None
            THEN [w1 EXCEPT !.kn[k] = GenerateUniqueTrajectoryName(w1)]
            ELSE w1
  IN IF w2.kn[k] # w2.kp[k]
     THEN LET w3 == OnKeyframeTrajectoryNameChanged(w2, k, w2.kp[k], e)
          IN [w3 EXCEPT !.kp[k] = w3.kn[k]]
     ELSE w2

\* keyframe context menu: trajectory-name text commit, existing-trajectory pick
MenuSetTrajectoryName(w, k, n, e) ==
  OnKeyframeTrajectoryNameChanged([w EXCEPT !.kn[k] = n], k, w.kn[k], e)

\* keyframe context menu: "New Trajectory"
MenuNewTrajectory(w, k, e) ==
  OnKeyframeTrajectoryNameChanged(
    [w EXCEPT !.kn[k] = GenerateUniqueTrajectoryName(w), !.ko[k] = 0],
    k, w.kn[k], e)

\* order spin box, increment / decrement entries, OrderInTrajectory property
SetOrder(w, k, v, e) ==
  OnKeyframeOrderChanged(
    [w EXCEPT !.ko[k] = IF v > OrderInTrajectoryMin THEN v ELSE OrderInTrajectoryMin],
    k, e)

\* ACDGTrajectory::PostEditChangeProperty, TrajectoryName edited to n
TrajectoryPostEditChangeName(w, t, n) ==
  OnTrajectoryNameChanged([w EXCEPT !.tn[t] = n], t)

\* ACDGKeyframe::Destroyed
Destroyed(w, k, e) == [UnregisterKeyframe(w, k, e) EXCEPT !.ka[k] = FALSE]

\* ---- actions: one per handler the editor or a caller can run ----
\* the model runs at most MaxOps operations
CanRun == opCount < MaxOps

TypedNames == UserNames \cup {NAME_None}

\* a keyframe actor is placed in the level
PlaceKeyframe ==
  /\ CanRun
  /\ FreeKeyframeActors # {}
  /\ \E e \in Env :
       LET k == Min(FreeKeyframeActors)
       IN /\ Commit(PostActorCreated(Constructed(World, k), k, e))
          /\ lastOp' = Op("PlaceKeyframe", k, NoTrajectory, 0)
  /\ UNCHANGED bHasPerformedInitialRefresh

\* a keyframe actor is duplicated: PostActorCreated, then the source's
\* properties are copied in, then PostEditImport
DuplicateKeyframe ==
  /\ CanRun
  /\ FreeKeyframeActors # {}
  /\ \E src \in KF, e \in Env :
       /\ kfAlive[src]
       /\ LET k == Min(FreeKeyframeActors)
              w1 == PostActorCreated(Constructed(World, k), k, e)
              w2 == [w1 EXCEPT !.kn[k] = w1.kn[src], !.ko[k] = w1.ko[src],
                               !.kf[k] = w1.kf[src], !.kl[k] = w1.kl[src]]
          IN /\ Commit(PostEditImport(w2, k, e))
             /\ lastOp' = Op("DuplicateKeyframe", k, NoTrajectory, 0)
  /\ UNCHANGED bHasPerformedInitialRefresh

\* a keyframe actor is deleted from the level
DestroyKeyframe ==
  /\ CanRun
  /\ \E k \in KF, e \in Env :
       /\ kfAlive[k]
       /\ Commit(Destroyed(World, k, e))
       /\ lastOp' = Op("DestroyKeyframe", k, NoTrajectory, 0)
  /\ UNCHANGED bHasPerformedInitialRefresh

\* the TrajectoryName property of a keyframe is edited in the details panel
EditKeyframeTrajectoryName ==
  /\ CanRun
  /\ \E k \in KF, n \in TypedNames, e \in Env :
       /\ kfAlive[k]
       /\ Commit(KeyframePostEditChangeTrajectoryName(World, k, n, e))
       /\ lastOp' = Op("EditKeyframeTrajectoryName", k, NoTrajectory, 0)
  /\ UNCHANGED bHasPerformedInitialRefresh

\* the trajectory name is set from the keyframe context menu
ContextMenuTrajectoryName ==
  /\ CanRun
  /\ \E k \in KF, n \in TypedNames \cup Keys(Trajectories), e \in Env :
       /\ kfAlive[k]
       /\ Commit(MenuSetTrajectoryName(World, k, n, e))
       /\ lastOp' = Op("ContextMenuTrajectoryName", k, NoTrajectory, 0)
  /\ UNCHANGED bHasPerformedInitialRefresh

ContextMenuNewTrajectory ==
  /\ CanRun
  /\ \E k \in KF, e \in Env :
       /\ kfAlive[k]
       /\ Commit(MenuNewTrajectory(World, k, e))
       /\ lastOp' = Op("ContextMenuNewTrajectory", k, NoTrajectory, 0)
  /\ UNCHANGED bHasPerformedInitialRefresh

\* the order of a keyframe is edited (spin box, +1 / -1, details panel)
EditOrder ==
  /\ CanRun
  /\ \E k \in KF, v \in 0..MaxOrderInput, e \in Env :
       /\ kfAlive[k]
       /\ Commit(SetOrder(World, k, v, e))
       /\ lastOp' = Op("EditOrder", k, TrajectoryToRenumber(World, k), v)
  /\ UNCHANGED bHasPerformedInitialRefresh

\* the TrajectoryName property of a trajectory actor is edited
EditTrajectoryName ==
  /\ CanRun
  /\ \E t \in TR, n \in TypedNames :
       /\ trAlive[t]
       /\ Commit(TrajectoryPostEditChangeName(World, t, n))
       /\ lastOp' = Op("EditTrajectoryName", NoKeyframe, t, 0)
  /\ UNCHANGED bHasPerformedInitialRefresh

CallDeleteTrajectoryActor ==
  /\ CanRun
  /\ \E t \in TR, e \in Env :
       /\ trAlive[t]
       /\ Commit(DeleteTrajectoryActor(World, t, e))
       /\ lastOp' = Op("DeleteTrajectoryActor", NoKeyframe, t, Len(trKeyframes[t]))
  /\ UNCHANGED bHasPerformedInitialRefresh

CallTick ==
  /\ CanRun
  /\ \E e \in Env : Commit(Tick(World, bHasPerformedInitialRefresh, e))
  /\ lastOp' = Op("Tick", NoKeyframe, NoTrajectory, 0)
  /\ bHasPerformedInitialRefresh' = TRUE

CallRefreshAll ==
  /\ CanRun
  /\ \E e \in Env : Commit(RefreshAll(World, e))
  /\ lastOp' = Op("RefreshAll", NoKeyframe, NoTrajectory, 0)
  /\ UNCHANGED bHasPerformedInitialRefresh

CallAutoAssignKeyframeOrders ==
  /\ CanRun
  /\ \E t \in TR, e \in Env :
       /\ trAlive[t]
       /\ Commit(AutoAssignKeyframeOrders(World, t, e))
       /\ lastOp' = Op("AutoAssignKeyframeOrders", NoKeyframe, t, 0)
  /\ UNCHANGED bHasPerformedInitialRefresh

CallOnKeyframeOrderManuallyChanged ==
  /\ CanRun
  /\ \E t \in TR, k \in KF \cup {NoKeyframe}, e \in Env :
       /\ trAlive[t]
       /\ k # NoKeyframe => kfAlive[k]
       /\ Commit(OnKeyframeOrderManuallyChanged(World, t, k, e))
       /\ lastOp' = Op("OnKeyframeOrderManuallyChanged", k, t, 0)
  /\ UNCHANGED bHasPerformedInitialRefresh

CallRegisterKeyframe ==
  /\ CanRun
  /\ \E k \in KF, e \in Env :
       /\ kfAlive[k]
       /\ Commit(RegisterKeyframe(World, k, e))
       /\ lastOp' = Op("RegisterKeyframe", k, NoTrajectory,
                       IF Contains(AllKeyframes, k) THEN 1 ELSE 0)
  /\ UNCHANGED bHasPerformedInitialRefresh

CallUnregisterKeyframe ==
  /\ CanRun
  /\ \E k \in KF, e \in Env :
       /\ kfAlive[k]
       /\ Commit(UnregisterKeyframe(World, k, e))
       /\ lastOp' = Op("UnregisterKeyframe", k, NoTrajectory, 0)
  /\ UNCHANGED bHasPerformedInitialRefresh

CallValidateAllTrajectories ==
  /\ CanRun
  /\ \E e \in Env : Commit(ValidateAllTrajectories(World, e))
  /\ lastOp' = Op("ValidateAllTrajectories", NoKeyframe, NoTrajectory, 0)
  /\ UNCHANGED bHasPerformedInitialRefresh

\* ---- actions of the editor preview state machine ----
BoolToInt(b) == IF b THEN 1 ELSE 0

\* the results of the successive GetActiveViewportClient calls of a handler
ViewportCalls == [1..3 -> BOOLEAN]

\* the host destroys a window before it handles the next input, so no menu is
\* shown while a window-closed callback is outstanding; lastOp.v is 1 for a
\* call that returned true, 2 for one that failed after it cached the viewport
CallEnterCameraPreview ==
  /\ CanRun
  /\ ~bWindowClosedPending
  /\ \E k \in KF \cup {NoKeyframe}, vp \in ViewportCalls :
       /\ k # NoKeyframe => kfAlive[k]
       /\ \E w \in {EnterCameraPreview(World, k, vp)} :
            /\ Commit(NoteEntry(World, w))
            /\ lastOp' = Op("EnterCameraPreview", k, NoTrajectory,
                            IF w.ret THEN 1
                            ELSE IF k # NoKeyframe /\ CurrentState = DISABLED /\ vp[1]
                            THEN 2 ELSE 0)
  /\ UNCHANGED bHasPerformedInitialRefresh

CallEnterTrajectoryPreview ==
  /\ CanRun
  /\ \E t \in TR \cup {NoTrajectory}, vp \in BOOLEAN :
       /\ t # NoTrajectory => trAlive[t]
       /\ \E w \in {EnterTrajectoryPreview(World, t, vp)} :
            /\ Commit(NoteEntry(World, w))
            /\ lastOp' = Op("EnterTrajectoryPreview", NoKeyframe, t, BoolToInt(w.ret))
  /\ UNCHANGED bHasPerformedInitialRefresh

CallExitPreview ==
  /\ CanRun
  /\ \E vp \in BOOLEAN, e \in Env :
       \E w \in {ExitPreview(World, vp, e)} :
         /\ Commit(w)
         /\ lastOp' = Op("ExitPreview", PreviewedKeyframe, PreviewedTrajectory,
                         BoolToInt(w.ret))
  /\ UNCHANGED bHasPerformedInitialRefresh

\* the Exit Preview button of the menu window is clicked
ClickExitPreview ==
  /\ CanRun
  /\ MenuWindow
  /\ \E vp \in BOOLEAN, e \in Env :
       \E w \in {OnExitPreviewClicked(World, vp, e)} :
         /\ Commit(w)
         /\ lastOp' = Op("ClickExitPreview", MenuWidget, NoTrajectory,
                         BoolToInt(w.ret))
  /\ UNCHANGED bHasPerformedInitialRefresh

\* the user closes the menu window with its native close button: the host
\* requests the destruction of the window and calls OnWindowClosed
CloseMenuWindow ==
  /\ CanRun
  /\ MenuWindow
  /\ \E vp \in BOOLEAN, e \in Env :
       \E w \in {OnWindowClosed([World EXCEPT !.md = @ + 1], vp, e)} :
         /\ Commit(w)
         /\ lastOp' = Op("CloseMenuWindow", MenuWidget, NoTrajectory,
                         BoolToInt(w.ret))
  /\ UNCHANGED bHasPerformedInitialRefresh

\* the host calls OnWindowClosed for a window HideMenu asked it to destroy:
\* from within RequestDestroyWindow, where bIsClosing is still set, or later
DeliverWindowClosed ==
  /\ bWindowClosedPending
  /\ \E bWithinHideMenu \in BOOLEAN, vp \in BOOLEAN, e \in Env :
       \E w \in {IF bWithinHideMenu
                 THEN [OnWindowClosed([World EXCEPT !.mp = FALSE, !.mc = TRUE], vp, e)
                         EXCEPT !.mc = FALSE]
                 ELSE OnWindowClosed([World EXCEPT !.mp = FALSE], vp, e)} :
         /\ Assign(w)
         /\ lastOp' = Op("DeliverWindowClosed", NoKeyframe, NoTrajectory,
                         BoolToInt(bWithinHideMenu))
  /\ UNCHANGED <<bHasPerformedInitialRefresh, opCount, auxVars>>

\* a visibility flag is edited in the details panel outside a preview
EditVisualizer ==
  /\ CanRun
  /\ CurrentState = DISABLED
  /\ \/ \E t \in TR :
          /\ trAlive[t]
          /\ Commit([World EXCEPT !.ts[t] = ~@])
          /\ lastOp' = Op("EditVisualizer", NoKeyframe, t, 0)
     \/ \E k \in KF :
          /\ kfAlive[k]
          /\ Commit([World EXCEPT !.kf[k] = ~@])
          /\ lastOp' = Op("EditVisualizer", k, NoTrajectory, 0)
  /\ UNCHANGED bHasPerformedInitialRefresh

vars == <<worldVars, editorVars, bHasPerformedInitialRefresh, lastOp, opCount,
          auxVars>>

Next ==
  \/ PlaceKeyframe
  \/ DuplicateKeyframe
  \/ DestroyKeyframe
  \/ EditKeyframeTrajectoryName
  \/ ContextMenuTrajectoryName
  \/ ContextMenuNewTrajectory
  \/ EditOrder
  \/ EditTrajectoryName
  \/ CallDeleteTrajectoryActor
  \/ CallTick
  \/ CallRefreshAll
  \/ CallAutoAssignKeyframeOrders
  \/ CallOnKeyframeOrderManuallyChanged
  \/ CallRegisterKeyframe
  \/ CallUnregisterKeyframe
  \/ CallValidateAllTrajectories

Spec == Init /\ [][Next]_vars

\* the editor preview state machine over a level edited by placing,
\* duplicating, reassigning and deleting keyframes
NextEditor ==
  \/ PlaceKeyframe
  \/ DuplicateKeyframe
  \/ DestroyKeyframe
  \/ ContextMenuNewTrajectory
  \/ CallEnterCameraPreview
  \/ CallEnterTrajectoryPreview
  \/ CallExitPreview
  \/ DeliverWindowClosed

SpecEditor == Init /\ [][NextEditor]_vars

\* ShowMenu is called by a caller other than EnterCameraPreview
CallShowMenu ==
  /\ CanRun
  /\ ~bWindowClosedPending
  /\ \E k \in KF :
       /\ kfAlive[k]
       /\ Commit(ShowMenu(World, k))
       /\ lastOp' = Op("ShowMenu", k, NoTrajectory, 0)
  /\ UNCHANGED bHasPerformedInitialRefresh

\* the state-poll timer of the menu fires
CallCheckEditorState ==
  /\ \E w \in {CheckEditorState(World)} : Assign(w)
  /\ lastOp' = Op("CheckEditorState", MenuWidget, NoTrajectory,
                  BoolToInt(MenuWindow /\ MenuWidget # NoKeyframe
                            /\ CurrentState # PREVIEW_CAMERA))
  /\ UNCHANGED <<bHasPerformedInitialRefresh, opCount, auxVars>>

\* previews entered and left through the menu window while the level is edited
NextPreview ==
  \/ PlaceKeyframe
  \/ DestroyKeyframe
  \/ EditTrajectoryName
  \/ CallUnregisterKeyframe
  \/ CallRegisterKeyframe
  \/ EditVisualizer
  \/ CallEnterCameraPreview
  \/ CallEnterTrajectoryPreview
  \/ CallExitPreview
  \/ ClickExitPreview
  \/ CloseMenuWindow
  \/ DeliverWindowClosed

SpecPreview == Init /\ [][NextPreview]_vars

\* the menu shown by other callers too, and its looping state-poll timer
\* (SubscribeToEditorState), which the host keeps firing
NextPoll ==
  \/ PlaceKeyframe
  \/ DestroyKeyframe
  \/ CallEnterCameraPreview
  \/ CallEnterTrajectoryPreview
  \/ CallExitPreview
  \/ ClickExitPreview
  \/ CloseMenuWindow
  \/ DeliverWindowClosed
  \/ CallShowMenu
  \/ CallCheckEditorState

SpecPoll == Init /\ [][NextPoll]_vars /\ WF_vars(CallCheckEditorState)

\* ---- trajectory actors entering the registry ----
\* ACDGTrajectory::PostActorCreated
TrajectoryPostActorCreated(w, t) == RegisterTrajectory(w, t)

\* the editor duplicates trajectory actor src as actor t: the properties of
\* src are copied into the new actor, then PostActorCreated runs
DuplicatedTrajectory(w, src, t) ==
  TrajectoryPostActorCreated(
    [w EXCEPT !.ta[t] = TRUE, !.tn[t] = w.tn[src], !.tk[t] = w.tk[src],
              !.tc[t] = w.tc[src], !.ts[t] = w.ts[src]], t)

RegisteredActors(reg) == {p[2] : p \in reg} \ {NoTrajectory}

\* the registry entries a handler added are appended to registrationOrder
NoteRegistrations(w) ==
  LET New == RegisteredActors(w.reg) \ RegisteredActors(Trajectories)
  IN registrationOrder' =
       IF New = {} THEN registrationOrder
       ELSE Append(registrationOrder, Min(New))

\* names a caller passes to SpawnTrajectory
SpawnNames == UserNames \cup {GenerateUniqueTrajectoryName(World)}

CallSpawnTrajectory ==
  \E n \in SpawnNames :
     LET r == SpawnTrajectory(World, n)
     IN /\ ~HasTrajectory(World, n)
        /\ Assign(r[1])
        /\ NoteRegistrations(r[1])
        /\ lastOp' = Op("SpawnTrajectory", NoKeyframe, r[2],
                        Cardinality(Trajectories))
        /\ UNCHANGED <<bHasPerformedInitialRefresh, opCount, pluginVars>>

DuplicateTrajectory ==
  /\ FreeTrajectoryActors(World) # {}
  /\ \E src \in TR :
       /\ trAlive[src]
       /\ LET t == Min(FreeTrajectoryActors(World))
              w == DuplicatedTrajectory(World, src, t)
          IN /\ Assign(w)
             /\ NoteRegistrations(w)
             /\ lastOp' = Op("DuplicateTrajectory", NoKeyframe, t, src)
       /\ UNCHANGED <<bHasPerformedInitialRefresh, opCount, pluginVars>>

NextRegistration ==
  \/ CallSpawnTrajectory
  \/ DuplicateTrajectory

SpecRegistration == Init /\ [][NextRegistration]_vars

\* ---- TrajectorySL: saving and loading the trajectories as JSON ----
\* A JSON document is the sequence of its trajectory objects; a trajectory
\* object has the fields TrajectoryName (HasName: the field is present) and
\* KeyFrames, a keyframe object the fields OrderInTrajectory and Transform
\* (TRUE: the field is present).
NameToString(n) == IF n = NAME_None THEN <<"None">> ELSE n
StringToName(str) == IF str = <<"None">> \/ str = <<>> THEN NAME_None ELSE str

KeyframeToJson(w, k) == [OrderInTrajectory |-> w.ko[k], Transform |-> TRUE]

RECURSIVE KeyframesToJson(_, _, _)
KeyframesToJson(w, ks, i) ==
  IF i > Len(ks) THEN <<>>
  ELSE <<KeyframeToJson(w, ks[i])>> \o KeyframesToJson(w, ks, i + 1)

GetSortedKeyframes(w, t, e) == SortedByOrder(w.tk[t], w.ko, e.flip)

RECURSIVE SaveTrajectoriesFrom(_, _, _)
\* TActorIterator<ACDGTrajectory>, from actor t on
SaveTrajectoriesFrom(w, t, e) ==
  IF t > MaxTrajectoryActors THEN <<>>
  ELSE IF ~w.ta[t] THEN SaveTrajectoriesFrom(w, t + 1, e)
  ELSE <<[HasName |-> TRUE, TrajectoryName |-> NameToString(w.tn[t]),
          KeyFrames |-> KeyframesToJson(w, GetSortedKeyframes(w, t, e), 1)]>>
       \o SaveTrajectoriesFrom(w, t + 1, e)

SaveAllTrajectoriesAsString(w, e) == SaveTrajectoriesFrom(w, 1, e)

\* LoadKeyframeFromJson after SpawnActor: w is the world in which keyframe k
\* has run PostActorCreated
SetLoadedNameAndOrder(w, k, TrajectoryName, Order, e) ==
  IF w.kn[k] # TrajectoryName /\ w.kn[k] # NAME_None
  THEN OnKeyframeTrajectoryNameChanged(
         [w EXCEPT !.kn[k] = TrajectoryName, !.ko[k] = Order], k, w.kn[k], e)
  ELSE [w EXCEPT !.kn[k] = TrajectoryName, !.ko[k] = Order]

\* The result is the pair <<world, keyframe>>; the keyframe is null when the
\* object has no Transform.
LoadKeyframeFromJson(w, KeyframeObj, TrajectoryName, Order, e) ==
  IF ~KeyframeObj.Transform THEN <<w, NoKeyframe>>
  ELSE LET Free == {k \in KF : ~w.ka[k] /\ ~KeyframeReferenced(w, k)}
       IN IF Free = {} THEN <<[w EXCEPT !.ovf = TRUE], NoKeyframe>>
          ELSE <<SetLoadedNameAndOrder(
                   PostActorCreated(Constructed(w, Min(Free)), Min(Free), e),
                   Min(Free), TrajectoryName, Order, e),
                 Min(Free)>>

\* CreatedKeyframes.Add(NewKeyframe) if the keyframe was created
AddCreated(Created, NewKeyframe) ==
  IF NewKeyframe # NoKeyframe THEN Append(Created, NewKeyframe) ELSE Created

RECURSIVE LoadKeyframesFrom(_, _, _, _, _, _)
\* the loop over the KeyFrames array from index i on, r being the pair
\* <<world, created keyframe>> of the previous iteration; the result is the
\* pair <<world, CreatedKeyframes>>
LoadKeyframesFrom(r, KeyframesArray, i, TrajectoryName, Created, e) ==
  IF i > Len(KeyframesArray) THEN <<r[1], AddCreated(Created, r[2])>>
  ELSE LoadKeyframesFrom(
         LoadKeyframeFromJson(r[1], KeyframesArray[i], TrajectoryName,
                              KeyframesArray[i].OrderInTrajectory, e),
         KeyframesArray, i + 1, TrajectoryName, AddCreated(Created, r[2]), e)

\* the end of one iteration of the loop over the Trajectories array: r is
\* the pair <<world, CreatedKeyframes>>
TrajectoryObjectLoaded(st, r) ==
  [w |-> r[1],
   loaded |-> st.loaded + (IF Len(r[2]) > 0 THEN 1 ELSE 0),
   created |-> Append(st.created, r[2])]

\* a trajectory object counts as loaded although it created no keyframe
LoadTrajectoryObjectCountingEmpty(st, TrajObj, e) ==
  IF ~TrajObj.HasName \/ Len(TrajObj.KeyFrames) = 0
  THEN [st EXCEPT !.created = Append(st.created, <<>>), !.loaded = st.loaded + 1]
  ELSE [TrajectoryObjectLoaded(st,
          LoadKeyframesFrom(<<st.w, NoKeyframe>>, TrajObj.KeyFrames, 1,
                            StringToName(TrajObj.TrajectoryName), <<>>, e))
        EXCEPT !.loaded = st.loaded + 1]

\* one iteration of the loop over the Trajectories array; st is the world,
\* the counter TrajectoriesLoaded and the keyframes created per object
LoadTrajectoryObject(st, TrajObj, e) ==
  IF ~TrajObj.HasName \/ Len(TrajObj.KeyFrames) = 0
  THEN [st EXCEPT !.created = Append(st.created, <<>>)]
  ELSE TrajectoryObjectLoaded(st,
         LoadKeyframesFrom(<<st.w, NoKeyframe>>, TrajObj.KeyFrames, 1,
                           StringToName(TrajObj.TrajectoryName), <<>>, e))

RECURSIVE LoadTrajectoriesFrom(_, _, _, _)
LoadTrajectoriesFrom(st, TrajectoriesArray, i, e) ==
  IF i > Len(TrajectoriesArray) THEN st
  ELSE LoadTrajectoriesFrom(LoadTrajectoryObject(st, TrajectoriesArray[i], e),
                            TrajectoriesArray, i + 1, e)

\* the world after the load, the keyframes created and the return value
LoadResult(st) == [w |-> st.w, created |-> st.created, ret |-> st.loaded > 0]

LoadAllTrajectories(w, Json, e) ==
  LoadResult(LoadTrajectoriesFrom([w |-> w, loaded |-> 0, created |-> <<>>], Json, 1, e))

\* a level that was just opened: no actors, newly initialized subsystems
EmptyWorld ==
  [ka |-> [k \in KF |-> FALSE], kn |-> [k \in KF |-> NAME_None],
   kp |-> [k \in KF |-> NAME_None], ko |-> [k \in KF |-> 0],
   kf |-> [k \in KF |-> TRUE], kl |-> [k \in KF |-> TRUE],
   ta |-> [t \in TR |-> FALSE], tn |-> [t \in TR |-> NAME_None],
   tk |-> [t \in TR |-> <<>>], tc |-> [t \in TR |-> DefaultColor],
   ts |-> [t \in TR |-> TRUE], reg |-> {}, all |-> <<>>,
   stv |-> {}, skv |-> {}, cs |-> DISABLED, pk |-> NoKeyframe,
   pt |-> NoTrajectory, cache |-> [View |-> ZeroView, bIsValid |-> FALSE],
   ovl |-> FALSE, tmr |-> FALSE, tmn |-> 0, view |-> UserView,
   mw |-> FALSE, mk |-> NoKeyframe, mc |-> FALSE, mp |-> FALSE,
   mx |-> 0, md |-> 0, mr |-> 0,
   ef |-> [ts |-> [t \in TR |-> TRUE], kf |-> [k \in KF |-> TRUE],
           kl |-> [k \in KF |-> TRUE]],
   et |-> {}, ek |-> {},
   gone |-> {}, UnregisterCalls |-> <<>>, DestroyCalls |-> <<>>,
   ovf |-> FALSE, ret |-> FALSE]

\* JSON documents given to LoadAllTrajectories
JsonKeyframes ==
  {<<>>,
   <<[OrderInTrajectory |-> 0, Transform |-> TRUE]>>,
   <<[OrderInTrajectory |-> 0, Transform |-> FALSE]>>,
   <<[OrderInTrajectory |-> 0, Transform |-> FALSE],
     [OrderInTrajectory |-> 1, Transform |-> TRUE]>>}

JsonTrajectoryObjects ==
  [HasName : {TRUE}, TrajectoryName : {<<"A">>}, KeyFrames : JsonKeyframes]
  \cup [HasName : {TRUE}, TrajectoryName : {<<"Trajectory", 1>>},
        KeyFrames : {<<[OrderInTrajectory |-> 0, Transform |-> TRUE]>>}]
  \cup [HasName : {FALSE}, TrajectoryName : {<<>>},
        KeyFrames : {<<[OrderInTrajectory |-> 0, Transform |-> TRUE]>>}]

JsonDocuments ==
  {<<>>} \cup {<<a>> : a \in JsonTrajectoryObjects}
         \cup {<<a, b>> : a \in JsonTrajectoryObjects, b \in JsonTrajectoryObjects}

exceptSL == <<registrationOrder, lensVars, timingVars, mrqVars, cleanupVars,
   exportVars>>

\* the trajectories of the level are saved, a new level is opened and the
\* document is loaded into it
SaveThenLoad ==
  /\ CanRun
  /\ loadCount < MaxLoads
  /\ loadCount' = loadCount + 1
  /\ \E e \in Env :
       \E Json \in {SaveAllTrajectoriesAsString(World, e)} :
          \E r \in {LoadAllTrajectories(EmptyWorld, Json, e)} :
             /\ Assign(r.w)
             /\ JsonString' = Json
             /\ CreatedKeyframes' = r.created
             /\ bLoaded' = r.ret
  /\ lastOp' = Op("SaveThenLoad", NoKeyframe, NoTrajectory, 0)
  /\ opCount' = opCount + 1
  /\ bHasPerformedInitialRefresh' = FALSE
  /\ UNCHANGED exceptSL

\* a document is loaded into the current level
CallLoadAllTrajectories ==
  /\ CanRun
  /\ loadCount < MaxLoads
  /\ loadCount' = loadCount + 1
  /\ \E Json \in JsonDocuments, e \in Env :
       \E r \in {LoadAllTrajectories(World, Json, e)} :
          /\ Assign(r.w)
          /\ JsonString' = Json
          /\ CreatedKeyframes' = r.created
          /\ bLoaded' = r.ret
  /\ lastOp' = Op("LoadAllTrajectories", NoKeyframe, NoTrajectory, 0)
  /\ opCount' = opCount + 1
  /\ UNCHANGED <<bHasPerformedInitialRefresh, exceptSL>>

NextSL ==
  \/ PlaceKeyframe
  \/ DuplicateKeyframe
  \/ DestroyKeyframe
  \/ EditOrder
  \/ SaveThenLoad
  \/ CallLoadAllTrajectories

SpecSL == Init /\ [][NextSL]_vars

\* ---- timing of a trajectory: duration and per-frame data ----
FracAdd(a, b) == Frac(a[1] * b[2] + b[1] * a[2], a[2] * b[2])
FracSub(a, b) == Frac(a[1] * b[2] - b[1] * a[2], a[2] * b[2])
FracMul(a, b) == Frac(a[1] * b[1], a[2] * b[2])
Max(a, b) == IF a < b THEN b ELSE a

\* the fraction is cut off
RoundToIntTruncated(x) == x[1] \div x[2]

\* FMath::RoundToInt of a value that is not negative: floor(x + 0.5)
RoundToInt(x) == (2 * x[1] + x[2]) \div (2 * x[2])

KINDA_SMALL_NUMBER == Frac(1, 10000)

\* a keyframe of the timed trajectory, as far as timing reads it
TimedKeyframe(Order, TimeTo, TimeAt) ==
  [OrderInTrajectory |-> Order, TimeToCurrentFrame |-> TimeTo,
   TimeAtCurrentFrame |-> TimeAt]

\* the values <<TimeToCurrentFrame, TimeAtCurrentFrame>> the Timing fields of
\* a keyframe are edited to (ClampMin = 0.0)
TimingValues ==
  {<<Frac(1, 2), Frac(1, 2)>>, <<Whole(2), Whole(0)>>, <<Frac(3, 2), Whole(1)>>}
DefaultTimeToCurrentFrame == Frac(1, 2)
DefaultTimeAtCurrentFrame == Whole(0)

\* the values of the FPS spin box that are explored (its range is 1..240)
FPSValues == {1, 2, 30}

\* GetSortedKeyframes of the timed trajectory: positions in Keyframes
GetSortedTimedKeyframes(Keyframes, flip) ==
  SortedByOrder([i \in 1..Len(Keyframes) |-> i],
                [i \in 1..Len(Keyframes) |-> Keyframes[i].OrderInTrajectory], flip)

\* the travel time of the first keyframe is counted as well
RECURSIVE DurationFromCountingFirstTravel(_, _, _, _)
DurationFromCountingFirstTravel(Keyframes, SortedKeyframes, i, Total) ==
  IF i > Len(SortedKeyframes) THEN Total
  ELSE DurationFromCountingFirstTravel(Keyframes, SortedKeyframes, i + 1,
         FracAdd(FracAdd(Total, Keyframes[SortedKeyframes[i]].TimeToCurrentFrame),
                 Keyframes[SortedKeyframes[i]].TimeAtCurrentFrame))

\* the loop of GetTrajectoryDuration from index i on (i = 1 is the first)
RECURSIVE DurationFrom(_, _, _, _)
DurationFrom(Keyframes, SortedKeyframes, i, Total) ==
  IF i > Len(SortedKeyframes) THEN Total
  ELSE DurationFrom(Keyframes, SortedKeyframes, i + 1,
         IF i = 1
         THEN FracAdd(Total, Keyframes[SortedKeyframes[i]].TimeAtCurrentFrame)
         ELSE FracAdd(FracAdd(Total, Keyframes[SortedKeyframes[i]].TimeToCurrentFrame),
                      Keyframes[SortedKeyframes[i]].TimeAtCurrentFrame))

GetTrajectoryDuration(Keyframes, flip) ==
  IF Len(Keyframes) = 0 THEN Whole(0)
  ELSE DurationFrom(Keyframes, GetSortedTimedKeyframes(Keyframes, flip), 1, Whole(0))

\* the KeyframeTimes array of GenerateFrameData, from sorted index k on
RECURSIVE KeyframeTimesFrom(_, _, _, _, _)
KeyframeTimesFrom(Keyframes, SortedKeyframes, k, CurrentTime, Times) ==
  IF k > Len(SortedKeyframes) THEN Times
  ELSE KeyframeTimesFrom(Keyframes, SortedKeyframes, k + 1,
         IF FracLess(KINDA_SMALL_NUMBER, Keyframes[SortedKeyframes[k]].TimeAtCurrentFrame)
         THEN FracAdd(FracAdd(CurrentTime, Keyframes[SortedKeyframes[k]].TimeToCurrentFrame),
                      Keyframes[SortedKeyframes[k]].TimeAtCurrentFrame)
         ELSE FracAdd(CurrentTime, Keyframes[SortedKeyframes[k]].TimeToCurrentFrame),
         Append(Times, FracAdd(CurrentTime, Keyframes[SortedKeyframes[k]].TimeToCurrentFrame)))

\* the segments [k, k+1] of KeyframeTimes that contain FrameTime (1-based k)
Brackets(KeyframeTimes, FrameTime) ==
  {k \in 1..(Len(KeyframeTimes) - 1) :
     /\ ~FracLess(FrameTime, KeyframeTimes[k])
     /\ ~FracLess(KeyframeTimes[k + 1], FrameTime)}

\* Alpha within the segment that starts at k
BlendAlpha(KeyframeTimes, FrameTime, k) ==
  IF FracLess(KINDA_SMALL_NUMBER, FracSub(KeyframeTimes[k + 1], KeyframeTimes[k]))
  THEN FracDiv(FracSub(FrameTime, KeyframeTimes[k]),
               FracSub(KeyframeTimes[k + 1], KeyframeTimes[k]))
  ELSE Whole(0)

\* one element of the Frames array; the keyframe indices are 0-based
FrameObj(FrameIndex, FrameTime, KeyframeTimes, NumKeyframes) ==
  IF FracLess(KeyframeTimes[Len(KeyframeTimes)], FrameTime)
  THEN [FrameIndex |-> FrameIndex, Time |-> FrameTime,
        KeyframeIndexA |-> NumKeyframes - 1, KeyframeIndexB |-> NumKeyframes - 1,
        BlendAlpha |-> Whole(0)]
  ELSE IF Brackets(KeyframeTimes, FrameTime) = {}
  THEN [FrameIndex |-> FrameIndex, Time |-> FrameTime,
        KeyframeIndexA |-> 0, KeyframeIndexB |-> 1, BlendAlpha |-> Whole(0)]
  ELSE [FrameIndex |-> FrameIndex, Time |-> FrameTime,
        KeyframeIndexA |-> Min(Brackets(KeyframeTimes, FrameTime)) - 1,
        KeyframeIndexB |-> Min(Brackets(KeyframeTimes, FrameTime)),
        BlendAlpha |-> BlendAlpha(KeyframeTimes, FrameTime,
                                  Min(Brackets(KeyframeTimes, FrameTime)))]

\* the loop over the frames, DeltaTime being Duration / TotalFrames
FramesOf(TotalFrames, DeltaTime, KeyframeTimes, NumKeyframes) ==
  [i \in 1..TotalFrames |->
     FrameObj(i - 1, FracMul(Whole(i - 1), DeltaTime), KeyframeTimes, NumKeyframes)]

\* GenerateFrameData once Duration is known
FramesForDuration(Keyframes, SortedKeyframes, Duration, TotalFrames) ==
  FramesOf(TotalFrames, FracDiv(Duration, Whole(TotalFrames)),
           KeyframeTimesFrom(Keyframes, SortedKeyframes, 2, Whole(0), <<Whole(0)>>),
           Len(SortedKeyframes))

GenerateFrameData(Keyframes, fps, flip) ==
  IF fps <= 0 THEN <<>>
  ELSE IF Len(GetSortedTimedKeyframes(Keyframes, flip)) < 2 THEN <<>>
  ELSE FramesForDuration(Keyframes, GetSortedTimedKeyframes(Keyframes, flip),
         GetTrajectoryDuration(Keyframes, flip),
         Max(1, RoundToInt(FracMul(GetTrajectoryDuration(Keyframes, flip), Whole(fps)))))

\* the KeyframeTimes array that GenerateFrameData builds
KeyframeTimesOf(Keyframes, fps, flip) ==
  IF fps <= 0 THEN NoResult
  ELSE IF Len(GetSortedTimedKeyframes(Keyframes, flip)) < 2 THEN NoResult
  ELSE KeyframeTimesFrom(Keyframes, GetSortedTimedKeyframes(Keyframes, flip), 2,
                         Whole(0), <<Whole(0)>>)

\* the TimeInTrajectory fields of the KeyFrames block of
\* SaveAllTrajectoriesAsString, from sorted index k on (k = 1 is the first)
RECURSIVE TimeInTrajectoryFrom(_, _, _, _, _)
TimeInTrajectoryFrom(Keyframes, SortedKeyframes, k, CurrentTimeSeconds, Times) ==
  IF k > Len(SortedKeyframes) THEN Times
  ELSE TimeInTrajectoryFrom(Keyframes, SortedKeyframes, k + 1,
         IF FracLess(KINDA_SMALL_NUMBER, Keyframes[SortedKeyframes[k]].TimeAtCurrentFrame)
         THEN FracAdd(IF k > 1
                      THEN FracAdd(CurrentTimeSeconds,
                                   Keyframes[SortedKeyframes[k]].TimeToCurrentFrame)
                      ELSE CurrentTimeSeconds,
                      Keyframes[SortedKeyframes[k]].TimeAtCurrentFrame)
         ELSE IF k > 1
              THEN FracAdd(CurrentTimeSeconds,
                           Keyframes[SortedKeyframes[k]].TimeToCurrentFrame)
              ELSE CurrentTimeSeconds,
         Append(Times, IF k > 1
                       THEN FracAdd(CurrentTimeSeconds,
                                    Keyframes[SortedKeyframes[k]].TimeToCurrentFrame)
                       ELSE CurrentTimeSeconds))

KeyFramesBlockTimes(Keyframes, flip) ==
  TimeInTrajectoryFrom(Keyframes, GetSortedTimedKeyframes(Keyframes, flip), 1,
                       Whole(0), <<>>)

exceptTiming == <<worldVars, editorVars, bHasPerformedInitialRefresh, opCount,
                  registrationOrder, lensVars, slVars, mrqVars, cleanupVars,
   exportVars>>

\* a keyframe joins the timed trajectory at the end, with the default timing
AddTimedKeyframe ==
  /\ Len(tmKeyframes) < MaxKeyframes
  /\ tmKeyframes' = Append(tmKeyframes,
                           TimedKeyframe(Len(tmKeyframes), DefaultTimeToCurrentFrame,
                                         DefaultTimeAtCurrentFrame))
  /\ TotalDuration' = NoResult
  /\ FramesArray' = NoResult
  /\ FPS' = 0
  /\ TimeInTrajectory' = NoResult
  /\ BuiltKeyframeTimes' = NoResult
  /\ lastOp' = Op("AddTimedKeyframe", NoKeyframe, NoTrajectory, 0)
  /\ UNCHANGED exceptTiming

\* the Timing fields of one keyframe are edited
EditTiming ==
  /\ \E i \in 1..Len(tmKeyframes), Timing \in TimingValues :
       tmKeyframes' = [tmKeyframes EXCEPT ![i].TimeToCurrentFrame = Timing[1],
                                          ![i].TimeAtCurrentFrame = Timing[2]]
  /\ TotalDuration' = NoResult
  /\ FramesArray' = NoResult
  /\ FPS' = 0
  /\ TimeInTrajectory' = NoResult
  /\ BuiltKeyframeTimes' = NoResult
  /\ lastOp' = Op("EditTiming", NoKeyframe, NoTrajectory, 0)
  /\ UNCHANGED exceptTiming

\* two keyframes of the timed trajectory exchange their orders
SwapTimedOrders ==
  /\ \E i \in 1..Len(tmKeyframes), j \in 1..Len(tmKeyframes) :
       /\ i < j
       /\ tmKeyframes' =
            [tmKeyframes EXCEPT ![i].OrderInTrajectory = tmKeyframes[j].OrderInTrajectory,
                                ![j].OrderInTrajectory = tmKeyframes[i].OrderInTrajectory]
  /\ TotalDuration' = NoResult
  /\ FramesArray' = NoResult
  /\ FPS' = 0
  /\ TimeInTrajectory' = NoResult
  /\ BuiltKeyframeTimes' = NoResult
  /\ lastOp' = Op("SwapTimedOrders", NoKeyframe, NoTrajectory, 0)
  /\ UNCHANGED exceptTiming

CallGetTrajectoryDuration ==
  /\ \E flip \in BOOLEAN : TotalDuration' = GetTrajectoryDuration(tmKeyframes, flip)
  /\ FramesArray' = NoResult
  /\ FPS' = 0
  /\ TimeInTrajectory' = NoResult
  /\ BuiltKeyframeTimes' = NoResult
  /\ lastOp' = Op("GetTrajectoryDuration", NoKeyframe, NoTrajectory, 0)
  /\ UNCHANGED <<tmKeyframes, exceptTiming>>

CallGenerateFrameData ==
  /\ \E fps \in FPSValues, flip \in BOOLEAN :
       /\ FramesArray' = GenerateFrameData(tmKeyframes, fps, flip)
       /\ BuiltKeyframeTimes' = KeyframeTimesOf(tmKeyframes, fps, flip)
       /\ FPS' = fps
  /\ TotalDuration' = NoResult
  /\ TimeInTrajectory' = NoResult
  /\ lastOp' = Op("GenerateFrameData", NoKeyframe, NoTrajectory, 0)
  /\ UNCHANGED <<tmKeyframes, exceptTiming>>

\* SaveAllTrajectoriesAsString writes the entry of the timed trajectory: its
\* Duration, its KeyFrames block and the Frames of GenerateFrameData
SaveTimedTrajectory ==
  /\ \E fps \in FPSValues, flip \in BOOLEAN :
       /\ TotalDuration' = GetTrajectoryDuration(tmKeyframes, flip)
       /\ TimeInTrajectory' = KeyFramesBlockTimes(tmKeyframes, flip)
       /\ FramesArray' = GenerateFrameData(tmKeyframes, fps, flip)
       /\ BuiltKeyframeTimes' = KeyframeTimesOf(tmKeyframes, fps, flip)
       /\ FPS' = fps
  /\ lastOp' = Op("SaveAllTrajectoriesAsString", NoKeyframe, NoTrajectory, 0)
  /\ UNCHANGED <<tmKeyframes, exceptTiming>>

NextTiming ==
  \/ AddTimedKeyframe
  \/ EditTiming
  \/ SwapTimedOrders
  \/ CallGetTrajectoryDuration
  \/ CallGenerateFrameData
  \/ SaveTimedTrajectory

SpecTiming == Init /\ [][NextTiming]_vars

\* ---- rendering through the movie render queue ----
H264_Video == "H264_Video"
CommandLineEncoder == "CommandLineEncoder"
PNG_Sequence == "PNG_Sequence"
EXR_Sequence == "EXR_Sequence"

IsVideoFormat(Format) == Format = H264_Video \/ Format = CommandLineEncoder

\* the four locations EnsureFFmpegAvailable checks
PossiblePaths ==
  {"Engine/FFmpeg/Win64/bin", "Engine/FFmpeg/Win64", "Project/FFmpeg/Win64/bin",
   "Project/Win64"}

EnsureFFmpegAvailable(Existing) == \E Path \in PossiblePaths : Path \in Existing

\* the command line encoder is added for every H.264 job
CommandLineEncoderAddedAlways(Format, bFFmpegAvailable) == Format = H264_Video

\* the condition under which ConfigureMoviePipelineJob adds the encoder
CommandLineEncoderAdded(Format, bFFmpegAvailable) ==
  Format = H264_Video /\ bFFmpegAvailable

\* the image sequence output of a format that is not a video format; the EXR
\* class is found in this build
ImageSequenceOutput(Format) ==
  IF Format = EXR_Sequence THEN "ImageSequenceOutput_EXR" ELSE "ImageSequenceOutput_PNG"

\* the settings FindOrAddSettingByClass leaves on the pipeline configuration
ConfiguredSettings(Format, bFFmpegAvailable) ==
  {"OutputSetting", "AntiAliasingSetting", "DeferredPassBase", "HighResSetting"}
  \cup (IF IsVideoFormat(Format)
        THEN {"ImageSequenceOutput_PNG"}
             \cup (IF CommandLineEncoderAdded(Format, bFFmpegAvailable)
                   THEN {"CommandLineEncoder"} ELSE {})
        ELSE {ImageSequenceOutput(Format)})

\* a job as AllocateNewJob returns it
NewJob(Trajectory) ==
  [Trajectory |-> Trajectory, bConfigured |-> FALSE, Settings |-> {}]

\* the null job pointer
NoJob == NewJob(0)

\* the pair <<return value, job>>; a null trajectory is 0
ConfigureMoviePipelineJob(Job, Trajectory, Config, Existing) ==
  IF Job = NoJob \/ Trajectory = 0 THEN <<FALSE, Job>>
  ELSE <<TRUE,
         [Job EXCEPT !.bConfigured = TRUE,
                     !.Settings = ConfiguredSettings(Config.ExportFormat,
                        IsVideoFormat(Config.ExportFormat) /\ EnsureFFmpegAvailable(Existing))]>>

FindExistingShotSequence(Trajectory, Shots, e) ==
  Trajectory # 0 /\ e.bLevelSaved /\ Shots[Trajectory] # "none"

ValidateShotSequence(Trajectory, Shots) == Shots[Trajectory] = "valid"

ValidateMasterSequence(MasterSequence, InTrajectories, Shots, e) ==
  /\ MasterSequence = "exported"
  /\ \A i \in 1..Len(InTrajectories) :
       InTrajectories[i] # 0 =>
         /\ FindExistingShotSequence(InTrajectories[i], Shots, e)
         /\ ValidateShotSequence(InTrajectories[i], Shots)

\* ScanForLevelSequence, then CreateSequenceAsset if nothing was found
InitLevelSequence(MasterSequence, e) ==
  IF MasterSequence # "none" THEN MasterSequence
  ELSE IF ~e.bLevelSaved THEN "none"
  ELSE "empty"

RECURSIVE CreateJobsFrom(_, _, _, _, _, _, _)
\* the loop over InTrajectories from index i on; r is the record of the queue
\* and of CreatedJobs
CreateJobsFrom(r, InTrajectories, i, Config, Shots, Existing, e) ==
  IF i > Len(InTrajectories) THEN r
  ELSE CreateJobsFrom(
         IF ~FindExistingShotSequence(InTrajectories[i], Shots, e) \/ ~e.bAllocate THEN r
         ELSE IF ConfigureMoviePipelineJob(NewJob(InTrajectories[i]), InTrajectories[i],
                                           Config, Existing)[1]
         THEN [Queue |-> Append(r.Queue,
                           ConfigureMoviePipelineJob(NewJob(InTrajectories[i]), InTrajectories[i],
                                                     Config, Existing)[2]),
               CreatedJobs |-> Append(r.CreatedJobs, Len(r.Queue) + 1)]
         ELSE [r EXCEPT !.Queue = Append(r.Queue, NewJob(InTrajectories[i]))],
         InTrajectories, i + 1, Config, Shots, Existing, e)

\* the queue is rendered although no job was created
RenderQueueAlways(r) ==
  [Queue |-> r.Queue, CreatedJobs |-> r.CreatedJobs, bSubmitted |-> TRUE, ret |-> TRUE]

\* the end of RenderTrajectoriesWithSequence: RenderQueueWithExecutor renders
\* every job of the queue
RenderQueue(r) ==
  IF Len(r.CreatedJobs) = 0
  THEN [Queue |-> r.Queue, CreatedJobs |-> r.CreatedJobs, bSubmitted |-> FALSE,
        ret |-> FALSE]
  ELSE [Queue |-> r.Queue, CreatedJobs |-> r.CreatedJobs, bSubmitted |-> TRUE,
        ret |-> TRUE]

\* a call that returns false before it allocates a job
NotRendered(Q) ==
  [Queue |-> Q, CreatedJobs |-> <<>>, bSubmitted |-> FALSE, ret |-> FALSE]

RenderTrajectoriesWithSequence(Q, MasterSequence, InTrajectories, Config, Shots, Existing, e) ==
  IF Len(InTrajectories) = 0 THEN NotRendered(Q)
  ELSE IF Config.DestinationRootDir = "" THEN NotRendered(Q)
  ELSE IF MasterSequence = "none" THEN NotRendered(Q)
  ELSE IF ~ValidateMasterSequence(MasterSequence, InTrajectories, Shots, e) THEN NotRendered(Q)
  ELSE IF ~e.bCreateDirectory THEN NotRendered(Q)
  ELSE RenderQueue(CreateJobsFrom([Queue |-> Q, CreatedJobs |-> <<>>], InTrajectories, 1,
                                  Config, Shots, Existing, e))

RenderTrajectories(Q, MasterSequence, InTrajectories, Config, Shots, Existing, e) ==
  IF Len(InTrajectories) = 0 THEN NotRendered(Q)
  ELSE IF Config.DestinationRootDir = "" THEN NotRendered(Q)
  ELSE IF InitLevelSequence(MasterSequence, e) = "none" THEN NotRendered(Q)
  ELSE RenderTrajectoriesWithSequence(Q, InitLevelSequence(MasterSequence, e),
                                      InTrajectories, Config, Shots, Existing, e)

\* World->GetMapName() of the editor world
LevelName == "Map"

\* FPaths::Combine(RootDir, LevelName) once both directories exist, the empty
\* string when one could not be created
SetupOutputDirectory(RootDir, Level, e) ==
  IF ~e.bCreateDirectory THEN NoPath ELSE <<RootDir, Level>>

\* OutputSetting->OutputDirectory.Path of a configured job: the directory
\* that receives the rendered frames
JobOutputDirectory(Config, Level) == <<Config.DestinationRootDir, Level, "OUTPUTS">>

\* JSONPath of ExportIndexJSON
ExportIndexJSON(OutputDir) == OutputDir \o <<"Index.json">>

\* the Index.json written by a call whose result is r: the export is reached
\* when a job was created
IndexJsonWritten(r, Config, bExportIndexJSON, e) ==
  IF Len(r.CreatedJobs) # 0 /\ bExportIndexJSON
  THEN ExportIndexJSON(SetupOutputDirectory(Config.DestinationRootDir, LevelName, e))
  ELSE NoPath

\* the arguments of RenderTrajectories that are explored
TrajectoryLists == {<<>>, <<1>>, <<1, 2>>, <<0, 2>>}
RenderConfigs ==
  [DestinationRootDir : {"", "D:/Dataset"},
   ExportFormat : {PNG_Sequence, H264_Video}]
\* what the host does during a call: the level has a package path, the
\* output directories can be created, the queue allocates a job
RenderEnv == [bLevelSaved : BOOLEAN, bCreateDirectory : BOOLEAN, bAllocate : BOOLEAN]

exceptMRQ == <<worldVars, editorVars, bHasPerformedInitialRefresh, opCount,
               registrationOrder, lensVars, slVars, timingVars, cleanupVars,
   exportVars>>

\* the level sequence exporter writes the master sequence and the shot
\* sequences of the trajectories in S
ExportLevelSequence ==
  /\ \E S \in SUBSET RenderTrajectoryIds :
       /\ S # {}
       /\ ShotSequences' = [t \in RenderTrajectoryIds |->
                              IF t \in S THEN "valid" ELSE ShotSequences[t]]
  /\ ActiveLevelSequence' = "exported"
  /\ lastOp' = Op("ExportLevelSequence", NoKeyframe, NoTrajectory, 0)
  /\ UNCHANGED <<FFmpegPaths, Queue, SubmittedJobs, RenderRequest, CreatedJobs,
                 bRenderStarted, OutputDirectory, IndexJsonPath, exceptMRQ>>

\* the user deletes a shot asset or strips its camera tracks
EditShotSequence ==
  /\ \E t \in RenderTrajectoryIds, v \in {"none", "invalid"} :
       /\ ShotSequences[t] = "valid"
       /\ ShotSequences' = [ShotSequences EXCEPT ![t] = v]
  /\ lastOp' = Op("EditShotSequence", NoKeyframe, NoTrajectory, 0)
  /\ UNCHANGED <<ActiveLevelSequence, FFmpegPaths, Queue, SubmittedJobs, RenderRequest,
                 CreatedJobs, bRenderStarted, OutputDirectory, IndexJsonPath, exceptMRQ>>

\* ffmpeg.exe is copied to, or removed from, one of the checked locations
InstallFFmpeg ==
  /\ \E Existing \in {{}, {"Engine/FFmpeg/Win64/bin"}, {"Project/Win64"}} :
       /\ Existing # FFmpegPaths
       /\ FFmpegPaths' = Existing
  /\ lastOp' = Op("InstallFFmpeg", NoKeyframe, NoTrajectory, 0)
  /\ UNCHANGED <<ActiveLevelSequence, ShotSequences, Queue, SubmittedJobs, RenderRequest,
                 CreatedJobs, bRenderStarted, OutputDirectory, IndexJsonPath, exceptMRQ>>

CallRenderTrajectories ==
  /\ Len(SubmittedJobs) < MaxRenders
  /\ Len(Queue) < MaxJobs
  /\ \E InTrajectories \in TrajectoryLists, Config \in RenderConfigs, e \in RenderEnv,
        bExportIndexJSON \in BOOLEAN :
       \E r \in {RenderTrajectories(Queue, ActiveLevelSequence, InTrajectories, Config,
                                    ShotSequences, FFmpegPaths, e)} :
          /\ ActiveLevelSequence' = InitLevelSequence(ActiveLevelSequence, e)
          /\ OutputDirectory' = IF Len(r.CreatedJobs) # 0
                                THEN JobOutputDirectory(Config, LevelName)
                                ELSE OutputDirectory
          /\ IndexJsonPath' = IndexJsonWritten(r, Config, bExportIndexJSON, e)
          /\ lastOp' = Op("RenderTrajectories", NoKeyframe, NoTrajectory,
                          BoolToInt(bExportIndexJSON))
          /\ Queue' = r.Queue
          /\ CreatedJobs' = r.CreatedJobs
          /\ SubmittedJobs' = IF r.bSubmitted THEN Append(SubmittedJobs, r.Queue)
                              ELSE SubmittedJobs
          /\ bRenderStarted' = r.ret
          /\ RenderRequest' = [Trajectories |-> InTrajectories, Config |-> Config,
                               MasterSequence |-> ActiveLevelSequence]
  /\ UNCHANGED <<ShotSequences, FFmpegPaths, exceptMRQ>>

NextMRQ ==
  \/ ExportLevelSequence
  \/ EditShotSequence
  \/ InstallFFmpeg
  \/ CallRenderTrajectories

SpecMRQ == Init /\ [][NextMRQ]_vars

\* ---- the rendered files of OUTPUTS and their cleanup ----
\* A file name is the sequence of its dot-separated parts, so
\* <<"Map", "A", "0001", "png">> is Map.A.0001.png; a trajectory name is
\* split the same way, <<"A", "1">> being the trajectory "A.1".
MinValidSize == 1024
OutputTrajectoryNames == {<<"A">>, <<"B">>, <<"A", "1">>}
FrameNumbers == <<"0001", "0002", "0003", "0004", "0005",
                  "0006", "0007", "0008", "0009", "0010">>
FrameCounts == {5, Len(FrameNumbers)}
VideoSizes == {0, MinValidSize - 1, MinValidSize}
PNGSize == 4 * MinValidSize

\* Printf("%s.%s", LevelName, TrajectoryName)
VideoFileName(TrajectoryName) == <<LevelName>> \o TrajectoryName

\* the file the encoder writes for a trajectory
MP4FileOf(TrajectoryName) == VideoFileName(TrajectoryName) \o <<"mp4">>

\* Printf("%s.%s.{frame_number}", LevelName, TrajectoryName) as a PNG file
FrameFilesOf(TrajectoryName, Count) ==
  {VideoFileName(TrajectoryName) \o <<FrameNumbers[n], "png">> : n \in 1..Count}

\* FPaths::GetBaseFilename: the name without its extension
GetBaseFilename(File) == SubSeq(File, 1, Len(File) - 1)

\* FindFiles with the pattern "*.mp4"
FindMP4Files(Files) ==
  {f \in DOMAIN Files : Len(f) >= 2 /\ f[Len(f)] = "mp4"}

\* FindFiles with the pattern BaseName + ".*.png": the name starts with
\* BaseName and a dot and ends with ".png", whatever stands between
FindPNGFiles(Files, BaseName) ==
  {f \in DOMAIN Files : /\ Len(f) >= Len(BaseName) + 2
                        /\ SubSeq(f, 1, Len(BaseName)) = BaseName
                        /\ f[Len(f)] = "png"}

DeleteFiles(Files, Deleted) == [f \in DOMAIN Files \ Deleted |-> Files[f]]

\* the loop over MP4Files; ReadOnly are the files DeleteFile refuses.
\* The value is <<files left, TotalPNGsDeleted, frames not deleted>>.
RECURSIVE CleanupFrom(_, _, _, _, _)
CleanupFrom(Files, MP4Files, ReadOnly, Total, Failed) ==
  IF MP4Files = {} THEN <<Files, Total, Failed>>
  ELSE LET MP4File == CHOOSE f \in MP4Files : TRUE
           FileSize == Files[MP4File]
           PNGFiles == FindPNGFiles(Files, GetBaseFilename(MP4File))
       IN  IF FileSize <= 0
           THEN CleanupFrom(Files, MP4Files \ {MP4File}, ReadOnly, Total, Failed)
           ELSE IF FileSize < MinValidSize
           THEN CleanupFrom(Files, MP4Files \ {MP4File}, ReadOnly, Total, Failed)
           ELSE CleanupFrom(DeleteFiles(Files, PNGFiles \ ReadOnly),
                            MP4Files \ {MP4File}, ReadOnly,
                            Total + Cardinality(PNGFiles \ ReadOnly),
                            Failed \cup (PNGFiles \cap ReadOnly))

ValidateAndCleanupVideoOutput(bDirectoryExists, Files, ReadOnly) ==
  IF ~bDirectoryExists THEN <<Files, 0, {}>>
  ELSE IF FindMP4Files(Files) = {} THEN <<Files, 0, {}>>
  ELSE CleanupFrom(Files, FindMP4Files(Files), ReadOnly, 0, {})

WriteFiles(Files, Names, Size) ==
  [f \in DOMAIN Files \cup Names |-> IF f \in Names THEN Size ELSE Files[f]]

exceptCleanup == <<worldVars, editorVars, bHasPerformedInitialRefresh, opCount,
                   registrationOrder, lensVars, slVars, timingVars, mrqVars,
   exportVars>>

\* a render job writes the PNG frames of its trajectory into OUTPUTS
RenderFrames ==
  /\ \E TrajectoryName \in OutputTrajectoryNames, Count \in FrameCounts :
       /\ FindPNGFiles(OutputFiles, VideoFileName(TrajectoryName)) = {}
       /\ OutputFiles' = WriteFiles(OutputFiles, FrameFilesOf(TrajectoryName, Count),
                                    PNGSize)
  /\ bOutputsDirectoryExists' = TRUE
  /\ lastOp' = Op("RenderFrames", NoKeyframe, NoTrajectory, 0)
  /\ UNCHANGED <<TotalPNGsDeleted, FailedToDelete, exceptCleanup>>

\* the command line encoder writes the video of a rendered trajectory; an
\* encoder that fails leaves an empty or truncated file
EncodeVideo ==
  /\ \E TrajectoryName \in OutputTrajectoryNames, Size \in VideoSizes :
       /\ FrameFilesOf(TrajectoryName, 1) \subseteq DOMAIN OutputFiles
       /\ MP4FileOf(TrajectoryName) \notin DOMAIN OutputFiles
       /\ OutputFiles' = WriteFiles(OutputFiles, {MP4FileOf(TrajectoryName)}, Size)
  /\ lastOp' = Op("EncodeVideo", NoKeyframe, NoTrajectory, 0)
  /\ UNCHANGED <<bOutputsDirectoryExists, TotalPNGsDeleted, FailedToDelete,
                 exceptCleanup>>

CallValidateAndCleanupVideoOutput ==
  /\ \E ReadOnly \in {{}} \cup {FrameFilesOf(T, Len(FrameNumbers)) : T \in OutputTrajectoryNames} :
       \E r \in {ValidateAndCleanupVideoOutput(bOutputsDirectoryExists, OutputFiles,
                                               ReadOnly)} :
          /\ OutputFiles' = r[1]
          /\ TotalPNGsDeleted' = r[2]
          /\ FailedToDelete' = r[3]
  /\ lastOp' = Op("ValidateAndCleanupVideoOutput", NoKeyframe, NoTrajectory, 0)
  /\ UNCHANGED <<bOutputsDirectoryExists, exceptCleanup>>

NextCleanup ==
  \/ RenderFrames
  \/ EncodeVideo
  \/ CallValidateAndCleanupVideoOutput

SpecCleanup == Init /\ [][NextCleanup]_vars

\* ---- the level sequence exporter window: OnExportClicked ----
TickResolution == 24000

\* GetTrajectoryDuration of the listed trajectories, in seconds
ExportDurations == <<Frac(1, 2), Whole(2), Whole(0)>>

\* the selections and frame rates that are explored
ExportSelections == {<<>>, <<1>>, <<2, 3>>, <<1, 2, 3>>, <<3, 1, 2>>}
ExportFPS == {7, 30}

\* Max(1, RoundToInt(Duration * FPS))
NumFrames(Duration, fps) == Max(1, RoundToInt(FracMul(Duration, Whole(fps))))

\* int32 DurationInTicks = NumFrames * (TickResolution / FPS): the double is
\* truncated
DurationInTicks(Duration, fps) == (NumFrames(Duration, fps) * TickResolution) \div fps

\* a section of the shot track
ShotSection(Trajectory, StartFrame, Ticks) ==
  [Trajectory |-> Trajectory, Start |-> StartFrame, Duration |-> Ticks]

\* the shot is inserted and the running offset stays where it was
ShotExportedOverlapping(st, Trajectory, Ticks) ==
  [st EXCEPT !.Track = Append(@, ShotSection(Trajectory, st.StartFrame, Ticks)),
             !.Inserted = Append(@, ShotSection(Trajectory, st.StartFrame, Ticks)),
             !.ShotUpper[Trajectory] = Ticks]

\* the end of one loop iteration: the shot's playback range is set, AddSequence
\* inserts it at StartFrame and StartFrame advances by its duration
ShotExported(st, Trajectory, Ticks) ==
  [st EXCEPT !.Track = Append(@, ShotSection(Trajectory, st.StartFrame, Ticks)),
             !.Inserted = Append(@, ShotSection(Trajectory, st.StartFrame, Ticks)),
             !.ShotUpper[Trajectory] = Ticks,
             !.StartFrame = @ + Ticks]

RECURSIVE ExportFrom(_, _, _, _, _)
\* the loop over TrajectoriesToExport from index i on; Failed are the
\* trajectories whose shot asset or camera cannot be created (continue)
ExportFrom(st, TrajectoriesToExport, i, fps, Failed) ==
  IF i > Len(TrajectoriesToExport) THEN st
  ELSE ExportFrom(
         IF TrajectoriesToExport[i] \in Failed THEN st
         ELSE ShotExported(st, TrajectoriesToExport[i],
                DurationInTicks(ExportDurations[TrajectoriesToExport[i]], fps)),
         TrajectoriesToExport, i + 1, fps, Failed)

\* the master before the loop: cleared if requested, StartFrame at the append
\* position
ExportStart(Track, PlaybackUpper, ShotUpper, bClearSequence) ==
  [Track |-> IF bClearSequence THEN <<>> ELSE Track,
   Inserted |-> <<>>,
   ShotUpper |-> ShotUpper,
   StartFrame |-> IF bClearSequence THEN 0 ELSE PlaybackUpper]

exceptExport == <<worldVars, editorVars, bHasPerformedInitialRefresh, opCount,
                  registrationOrder, lensVars, slVars, timingVars, cleanupVars>>

ExportEnv(bLevelSaved) ==
  [bLevelSaved |-> bLevelSaved, bCreateDirectory |-> TRUE, bAllocate |-> TRUE]

\* nothing is selected, or the subsystem has no master sequence: the handler
\* returns before it touches the master
OnExportClickedNothing ==
  /\ \E TrajectoriesToExport \in ExportSelections, bLevelSaved \in BOOLEAN :
       /\ \/ TrajectoriesToExport = <<>>
          \/ InitLevelSequence(ActiveLevelSequence, ExportEnv(bLevelSaved)) = "none"
       /\ ActiveLevelSequence' =
            IF TrajectoriesToExport = <<>> THEN ActiveLevelSequence
            ELSE InitLevelSequence(ActiveLevelSequence, ExportEnv(bLevelSaved))
  /\ lastOp' = Op("OnExportClicked", NoKeyframe, NoTrajectory, 0)
  /\ UNCHANGED <<ShotSequences, FFmpegPaths, Queue, SubmittedJobs, RenderRequest,
                 CreatedJobs, bRenderStarted, OutputDirectory, IndexJsonPath,
                 exportVars, exceptExport>>

OnExportClicked ==
  /\ exportCount < MaxExports
  /\ \E TrajectoriesToExport \in ExportSelections, fps \in ExportFPS,
        bClearSequence \in BOOLEAN, Failed \in SUBSET ExportTrajectoryIds,
        bLevelSaved \in BOOLEAN :
       /\ TrajectoriesToExport # <<>>
       /\ InitLevelSequence(ActiveLevelSequence, ExportEnv(bLevelSaved)) # "none"
       /\ \E st \in {ExportFrom(ExportStart(MasterShotTrack, MasterPlaybackUpper,
                                            ShotPlaybackUpper, bClearSequence),
                                TrajectoriesToExport, 1, fps, Failed)} :
            /\ MasterShotTrack' = st.Track
            /\ InsertedShots' = st.Inserted
            /\ ShotPlaybackUpper' = st.ShotUpper
            /\ MasterPlaybackUpper' = st.StartFrame
       /\ ExportRequest' = [Trajectories |-> TrajectoriesToExport,
                            bClearSequence |-> bClearSequence, FPS |-> fps]
  /\ ActiveLevelSequence' = "exported"
  /\ exportCount' = exportCount + 1
  /\ lastOp' = Op("OnExportClicked", NoKeyframe, NoTrajectory, 1)
  /\ UNCHANGED <<ShotSequences, FFmpegPaths, Queue, SubmittedJobs, RenderRequest,
                 CreatedJobs, bRenderStarted, OutputDirectory, IndexJsonPath,
                 exceptExport>>

NextExport ==
  \/ OnExportClickedNothing
  \/ OnExportClicked

SpecExport == Init /\ [][NextExport]_vars

\* ---- editing the lens of a keyframe ----
levelVars == <<worldVars, editorVars, bHasPerformedInitialRefresh, opCount,
               registrationOrder>>
exceptLens == <<levelVars, slVars, timingVars, mrqVars, cleanupVars,
   exportVars>>

LensEdited(r) ==
  /\ LensSettings' = r[1]
  /\ FilmbackSettings' = r[2]

PropertyPanelEditLens ==
  /\ \E prop \in LensProperties : \E v \in LensInputs(prop) :
       LET st == PropertyPanelStore(LensSettings, FilmbackSettings, prop, v)
       IN LensEdited(KeyframePostEditChangeLens(st[1], st[2], prop))
  /\ lastOp' = Op("PropertyPanelEditLens", NoKeyframe, NoTrajectory, 0)
  /\ UNCHANGED exceptLens

KeyframeContextMenuEditLens ==
  /\ \E prop \in LensProperties : \E v \in LensInputs(prop) :
       LensEdited(KeyframeContextMenuCommit(LensSettings, FilmbackSettings, prop, v))
  /\ lastOp' = Op("KeyframeContextMenuEditLens", NoKeyframe, NoTrajectory, 0)
  /\ UNCHANGED exceptLens

CameraPreviewMenuEditLens ==
  /\ \E prop \in LensProperties : \E v \in LensInputs(prop) :
       LensEdited(CameraPreviewMenuCommit(LensSettings, FilmbackSettings, prop, v))
  /\ lastOp' = Op("CameraPreviewMenuEditLens", NoKeyframe, NoTrajectory, 0)
  /\ UNCHANGED exceptLens

NextLens ==
  \/ PropertyPanelEditLens
  \/ KeyframeContextMenuEditLens
  \/ CameraPreviewMenuEditLens

SpecLens == Init /\ [][NextLens]_vars

\* ---- properties of the editor preview state machine ----
PreviewStates == {PREVIEW_CAMERA, PREVIEW_TRAJECTORY}

\* C1: every change of CurrentState goes from DISABLED to PREVIEW_CAMERA, from
\* DISABLED to PREVIEW_TRAJECTORY or from a preview state to DISABLED; it never
\* goes directly from one preview state to the other.
C1_LegalTransitions ==
  [][CurrentState' # CurrentState =>
       \/ CurrentState = DISABLED /\ CurrentState' \in PreviewStates
       \/ CurrentState \in PreviewStates /\ CurrentState' = DISABLED]_vars

\* EnterTrajectoryPreview was called on a trajectory during a camera preview
C1_Witness ==
  /\ lastOp.op = "EnterTrajectoryPreview"
  /\ lastOp.t # NoTrajectory
  /\ CurrentState = PREVIEW_CAMERA

\* the step is an illegal transition attempt
IllegalAttempt ==
  \/ /\ lastOp'.op \in {"EnterCameraPreview", "EnterTrajectoryPreview"}
     /\ CurrentState \in PreviewStates
  \/ /\ lastOp'.op = "ExitPreview"
     /\ CurrentState = DISABLED

\* C2: an illegal transition attempt (EnterCameraPreview or
\* EnterTrajectoryPreview in a preview state, ExitPreview in DISABLED) returns
\* false and changes nothing: not CurrentState, the previewed references, the
\* cached viewport snapshot, the visualizer flags and their saved values, the
\* sync timer, the overlay registration, the viewport or the registry.
C2_IllegalAttemptNoEffect ==
  [][IllegalAttempt => lastOp'.v = 0 /\ UNCHANGED <<worldVars, editorVars>>]_vars

\* EnterCameraPreview was called on a keyframe during a trajectory preview
C2_Witness ==
  /\ lastOp.op = "EnterCameraPreview"
  /\ lastOp.k # NoKeyframe
  /\ lastOp.v = 0
  /\ CurrentState = PREVIEW_TRAJECTORY

\* C3: ExitPreview called in the state a successful EnterCameraPreview(k) left
\* ends with CurrentState = DISABLED and both previewed references null.
C3_ExitClearsPreview ==
  [][lastOp'.op = "ExitPreview" /\ CurrentState = PREVIEW_CAMERA =>
       /\ lastOp'.v = 1
       /\ CurrentState' = DISABLED
       /\ PreviewedKeyframe' = NoKeyframe
       /\ PreviewedTrajectory' = NoTrajectory]_vars

\* ExitPreview has just ended the camera preview of a keyframe
C3_Witness ==
  /\ lastOp.op = "ExitPreview"
  /\ lastOp.k # NoKeyframe
  /\ lastOp.v = 1
  /\ CurrentState = DISABLED

\* ---- properties of the registry ----
\* keyframes the subsystem tracks
RegisteredKeyframes == {k \in Range(AllKeyframes) : kfAlive[k]}
\* registry entries whose trajectory lists k as a member
OwnersOf(k) ==
  {p \in Trajectories : p[2] # NoTrajectory /\ Contains(trKeyframes[p[2]], k)}

\* C4: every registered keyframe has a non-empty TrajectoryName and is a
\* member of exactly one registered trajectory, the one registered under that
\* name.
C4_ExactlyOneTrajectory ==
  \A k \in RegisteredKeyframes :
    /\ kfTrajectoryName[k] # NAME_None
    /\ \E t \in TR : OwnersOf(k) = {<<kfTrajectoryName[k], t>>}

\* C5: no two distinct live trajectories carry the same TrajectoryName.
C5_UniqueTrajectoryNames ==
  \A t1 \in TR, t2 \in TR :
    trAlive[t1] /\ trAlive[t2] /\ t1 # t2
      => trTrajectoryName[t1] # trTrajectoryName[t2]

\* C6: between operations, no two member keyframes of the same registered
\* trajectory have the same OrderInTrajectory.
C6_UniqueOrders ==
  \A p \in Trajectories :
    p[2] # NoTrajectory =>
      \A i \in 1..Len(trKeyframes[p[2]]), j \in 1..Len(trKeyframes[p[2]]) :
        i # j => kfOrderInTrajectory[trKeyframes[p[2]][i]]
                   # kfOrderInTrajectory[trKeyframes[p[2]][j]]

\* the orders of the members of trajectory t
MemberOrders(t) ==
  {kfOrderInTrajectory[trKeyframes[t][i]] : i \in 1..Len(trKeyframes[t])}

\* C7: right after AutoAssignKeyframeOrders() or OnKeyframeOrderManuallyChanged
\* (with or without a changed keyframe) on a trajectory with N members, the
\* orders of its members are exactly 0..N-1.
C7_SequentialOrders ==
  /\ lastOp.op \in {"AutoAssignKeyframeOrders", "OnKeyframeOrderManuallyChanged",
                    "EditOrder"}
  /\ lastOp.t # NoTrajectory
  => MemberOrders(lastOp.t) = 0..(Len(trKeyframes[lastOp.t]) - 1)

\* the order of a keyframe of a three-member trajectory was edited to a value
\* another member had
C7_Witness ==
  /\ lastOp.op = "EditOrder"
  /\ lastOp.t # NoTrajectory
  /\ Len(trKeyframes[lastOp.t]) = 3
  /\ kfOrderInTrajectory[lastOp.k] = lastOp.v

\* C8: when an operation removes the last member keyframe of a registered
\* trajectory, then at the end of the operation (every such operation ends
\* with a cleanup pass) the trajectory is in no registry entry and no
\* registered keyframe carries the name it was registered under.
C8_EmptyTrajectoryDeleted ==
  [][\A p \in Trajectories :
       /\ p[2] # NoTrajectory
       /\ Len(trKeyframes[p[2]]) = 1
       /\ trKeyframes'[p[2]] = <<>>
       => /\ \A q \in Trajectories' : q[2] # p[2]
          /\ \A k \in RegisteredKeyframes' : kfTrajectoryName'[k] # p[1]]_vars

\* C9: DeleteTrajectoryActor(T) on a trajectory T that has member keyframes
\* leaves every former member that was registered still registered and the
\* only member of a trajectory registered under the member's new name, a name
\* that was no registry key before the call; and T is in no registry entry.
C9_DeleteReassignsMembers ==
  [][lastOp'.op = "DeleteTrajectoryActor" /\ trKeyframes[lastOp'.t] # <<>> =>
       /\ \A k \in Range(trKeyframes[lastOp'.t]) :
            /\ Contains(AllKeyframes, k) => Contains(AllKeyframes', k)
            /\ \E q \in Trajectories' :
                 /\ q[1] = kfTrajectoryName'[k]
                 /\ q[1] \notin Keys(Trajectories)
                 /\ q[2] # NoTrajectory
                 /\ trKeyframes'[q[2]] = <<k>>
       /\ \A q \in Trajectories' : q[2] # lastOp'.t]_vars

(* C10: RegisterKeyframe(k) on a keyframe that is already in the flat list   *)
(* changes nothing: the flat keyframe list, the registry, every trajectory's *)
(* membership, every keyframe's TrajectoryName and every order value are the *)
(* same as before the call.                                                  *)
C10_RegisterIdempotent ==
  [][lastOp'.op = "RegisterKeyframe" /\ Contains(AllKeyframes, lastOp'.k) =>
       UNCHANGED <<AllKeyframes, Trajectories, trKeyframes, trTrajectoryName,
                   kfTrajectoryName, kfPreviousTrajectoryName,
                   kfOrderInTrajectory>>]_vars

C10_Witness ==
  /\ lastOp.op = "RegisterKeyframe"
  /\ lastOp.v = 1
  /\ Contains(AllKeyframes, lastOp.k)
  /\ \E p \in Trajectories :
       /\ p[2] # NoTrajectory
       /\ Contains(trKeyframes[p[2]], lastOp.k)
       /\ Len(trKeyframes[p[2]]) >= 2

\* ---- properties of trajectory registration ----
\* the first name N_k, k = 1, 2, ..., that is not a key of registry reg
FirstFreeSuffixed(reg, N) ==
  Append(N, Min({c \in 1..(Cardinality(reg) + 1) : Append(N, c) \notin Keys(reg)}))

(* C11: registering a trajectory object whose name N is already registered   *)
(* to a different object renames the new object to the first N_k, k = 1, 2,  *)
(* ..., that is not in the registry, and afterwards both objects are in the  *)
(* registry under their distinct names.                                      *)
C11_CollisionRenamed ==
  [][/\ lastOp'.op = "DuplicateTrajectory"
     /\ HasTrajectory(World, trTrajectoryName[lastOp'.v])
     => LET N == trTrajectoryName[lastOp'.v]
            Old == Lookup(Trajectories, N)
        IN /\ trTrajectoryName'[lastOp'.t] = FirstFreeSuffixed(Trajectories, N)
           /\ trTrajectoryName'[lastOp'.t] # N
           /\ <<trTrajectoryName'[lastOp'.t], lastOp'.t>> \in Trajectories'
           /\ <<N, Old>> \in Trajectories'
           /\ trTrajectoryName'[Old] = N
           /\ Old # lastOp'.t]_vars

C11_Witness ==
  /\ lastOp.op = "DuplicateTrajectory"
  /\ trTrajectoryName[lastOp.t] = <<"A", 2>>
  /\ HasTrajectory(World, <<"A">>)
  /\ HasTrajectory(World, <<"A", 1>>)

(* C12: when trajectories are registered in sequence into an empty registry, *)
(* the i-th registered trajectory has palette colour (i-1) mod 8, so the 9th *)
(* trajectory's colour equals the 1st trajectory's colour.                   *)
C12_PaletteCycles ==
  /\ \A i \in 1..Len(registrationOrder) :
       trTrajectoryColor[registrationOrder[i]] = (i - 1) % PaletteSize
  /\ Len(registrationOrder) >= PaletteSize + 1 =>
       trTrajectoryColor[registrationOrder[PaletteSize + 1]]
         = trTrajectoryColor[registrationOrder[1]]

C12_Witness ==
  /\ Len(registrationOrder) = PaletteSize + 1
  /\ Cardinality(Trajectories) = PaletteSize + 1

\* ---- properties of the keyframe lens ----
(* C13: after any edit of FocalLength, FieldOfView, SensorWidth or           *)
(* SensorAspectRatio through the property panel, the keyframe context menu   *)
(* or the preview menu, FieldOfView equals the value the FOV-from-focal-     *)
(* length formula 2 * atan(SensorWidth / (2 * FocalLength)) gives for the    *)
(* current FocalLength and SensorWidth.                                      *)
C13_LensSynchronized ==
  LensSettings.FieldOfView
    = FracDiv(FilmbackSettings.SensorWidth,
              FracDiv(LensSettings.FocalLength, Frac(1, 2)))

\* ---- properties of saving and loading ----
\* the trajectory objects of a document with their position in it
Entries(Json) == 1..Len(Json)

(* C14: saving a world's trajectories to JSON and loading that JSON into a   *)
(* fresh world reproduces the same trajectory names, the same number of      *)
(* keyframes per trajectory and, for every keyframe, the OrderInTrajectory   *)
(* value that was saved.                                                     *)
C14_SaveLoadRoundTrip ==
  lastOp.op = "SaveThenLoad" =>
    /\ Keys(Trajectories) = {StringToName(JsonString[i].TrajectoryName) : i \in Entries(JsonString)}
    /\ Len(CreatedKeyframes) = Len(JsonString)
    /\ \A i \in Entries(JsonString) :
         LET t == GetTrajectory(World, StringToName(JsonString[i].TrajectoryName))
         IN /\ t # NoTrajectory
            /\ Len(trKeyframes[t]) = Len(JsonString[i].KeyFrames)
            /\ Len(CreatedKeyframes[i]) = Len(JsonString[i].KeyFrames)
            /\ \A j \in 1..Len(CreatedKeyframes[i]) :
                 kfOrderInTrajectory[CreatedKeyframes[i][j]]
                   = JsonString[i].KeyFrames[j].OrderInTrajectory

\* the keyframe objects of a trajectory object that LoadKeyframeFromJson accepts
LoadableKeyframes(TrajObj) ==
  IF TrajObj.HasName
  THEN {j \in 1..Len(TrajObj.KeyFrames) : TrajObj.KeyFrames[j].Transform}
  ELSE {}

(* C15: LoadAllTrajectories returns true if and only if at least one         *)
(* trajectory entry yielded at least one created keyframe; entries lacking a *)
(* TrajectoryName or a non-empty KeyFrames array, and keyframes that fail to *)
(* load, are skipped without aborting the remaining entries.                 *)
C15_LoadResult ==
  lastOp.op = "LoadAllTrajectories" =>
    /\ bLoaded = (\E i \in Entries(JsonString) : CreatedKeyframes[i] # <<>>)
    /\ Len(CreatedKeyframes) = Len(JsonString)
    /\ \A i \in Entries(JsonString) :
         /\ Len(CreatedKeyframes[i]) = Cardinality(LoadableKeyframes(JsonString[i]))
         /\ \A j \in 1..Len(CreatedKeyframes[i]) :
              /\ kfAlive[CreatedKeyframes[i][j]]
              /\ Contains(AllKeyframes, CreatedKeyframes[i][j])

C15_Witness ==
  /\ lastOp.op = "LoadAllTrajectories"
  /\ bLoaded
  /\ Len(JsonString) = 2
  /\ ~JsonString[1].HasName
  /\ Cardinality(LoadableKeyframes(JsonString[2])) = 1
  /\ Len(JsonString[2].KeyFrames) = 2

\* ---- properties of the timing ----
\* the keyframe of the trajectory with exactly r keyframes ordered before it
KeyframeOfRank(Keyframes, r) ==
  CHOOSE i \in 1..Len(Keyframes) :
    Cardinality({j \in 1..Len(Keyframes) :
                   Keyframes[j].OrderInTrajectory < Keyframes[i].OrderInTrajectory}) = r

RECURSIVE SumOver(_, _)
\* the sum of the values f[x] for x in S
SumOver(f, S) ==
  IF S = {} THEN Whole(0)
  ELSE FracAdd(f[Min(S)], SumOver(f, S \ {Min(S)}))

\* travel plus stay time of every keyframe after the first sorted one
LaterTimes(Keyframes) ==
  SumOver([r \in 1..(Len(Keyframes) - 1) |->
             FracAdd(Keyframes[KeyframeOfRank(Keyframes, r)].TimeToCurrentFrame,
                     Keyframes[KeyframeOfRank(Keyframes, r)].TimeAtCurrentFrame)],
          1..(Len(Keyframes) - 1))

\* the timing of the three keyframes is, in sorted order, that of the example
IsDurationExample(Keyframes) ==
  /\ Len(Keyframes) = 3
  /\ Keyframes[KeyframeOfRank(Keyframes, 0)].TimeAtCurrentFrame = Frac(1, 2)
  /\ Keyframes[KeyframeOfRank(Keyframes, 1)].TimeToCurrentFrame = Whole(2)
  /\ Keyframes[KeyframeOfRank(Keyframes, 1)].TimeAtCurrentFrame = Whole(0)
  /\ Keyframes[KeyframeOfRank(Keyframes, 2)].TimeToCurrentFrame = Frac(3, 2)
  /\ Keyframes[KeyframeOfRank(Keyframes, 2)].TimeAtCurrentFrame = Whole(1)

(* C16: GetTrajectoryDuration() equals the first sorted keyframe's           *)
(* TimeAtCurrentFrame plus, for every later keyframe, its TimeToCurrentFrame *)
(* plus its TimeAtCurrentFrame; for TimeToCurrentFrame = [-, 2.0, 1.5] and   *)
(* TimeAtCurrentFrame = [0.5, 0.0, 1.0] the result is 5.0.                   *)
C16_DurationAccumulates ==
  lastOp.op = "GetTrajectoryDuration" /\ Len(tmKeyframes) > 0 =>
    /\ TotalDuration
         = FracAdd(tmKeyframes[KeyframeOfRank(tmKeyframes, 0)].TimeAtCurrentFrame,
                   LaterTimes(tmKeyframes))
    /\ IsDurationExample(tmKeyframes) => TotalDuration = Whole(5)

C16_Witness ==
  /\ lastOp.op = "GetTrajectoryDuration"
  /\ IsDurationExample(tmKeyframes)
  /\ tmKeyframes[2].OrderInTrajectory = 0
  /\ TotalDuration = Whole(5)

\* the duration GetTrajectoryDuration returns for the timed trajectory
DurationNow ==
  FracAdd(tmKeyframes[KeyframeOfRank(tmKeyframes, 0)].TimeAtCurrentFrame,
          LaterTimes(tmKeyframes))

\* Duration * FPS rounded to the nearest integer, at least 1
ExpectedFrames ==
  LET Product == FracMul(DurationNow, Whole(FPS))
      Nearest == CHOOSE n \in 0..(Product[1] + 1) :
                   /\ 2 * n * Product[2] <= 2 * Product[1] + Product[2]
                   /\ 2 * (n + 1) * Product[2] > 2 * Product[1] + Product[2]
  IN IF Nearest < 1 THEN 1 ELSE Nearest

(* C17: GenerateFrameData on a trajectory with at least 2 keyframes emits    *)
(* exactly max(1, round(Duration*FPS)) frames, frame i carrying FrameIndex i *)
(* and Time i*(Duration/TotalFrames); for a 5.0 s trajectory at 30 FPS that  *)
(* is 150 frames, frame 0 at time 0.0 and the last at 149*(5.0/150).         *)
C17_FrameCountAndTimes ==
  lastOp.op = "GenerateFrameData" /\ Len(tmKeyframes) >= 2 =>
    /\ Len(FramesArray) = ExpectedFrames
    /\ \A i \in 0..(Len(FramesArray) - 1) :
         /\ FramesArray[i + 1].FrameIndex = i
         /\ FramesArray[i + 1].Time
              = FracMul(Whole(i), FracDiv(DurationNow, Whole(Len(FramesArray))))
    /\ DurationNow = Whole(5) /\ FPS = 30 =>
         /\ Len(FramesArray) = 150
         /\ FramesArray[1].Time = Whole(0)
         /\ FramesArray[150].Time = FracMul(Whole(149), Frac(5, 150))

C17_Witness ==
  /\ lastOp.op = "GenerateFrameData"
  /\ IsDurationExample(tmKeyframes)
  /\ FPS = 30
  /\ Len(FramesArray) = 150
  /\ FramesArray[150].FrameIndex = 149

\* ---- properties of rendering ----
(* C18: RenderTrajectories(trajectories, config) returns false without       *)
(* submitting any render job when the destination directory is empty, the    *)
(* trajectory list is empty, no master sequence exists, or no job could be   *)
(* created for any trajectory.                                               *)
C18_RenderRefused ==
  [][lastOp'.op = "RenderTrajectories"
     /\ \/ RenderRequest'.Config.DestinationRootDir = ""
        \/ RenderRequest'.Trajectories = <<>>
        \/ RenderRequest'.MasterSequence = "none"
        \/ CreatedJobs' = <<>>
     => /\ ~bRenderStarted'
        /\ SubmittedJobs' = SubmittedJobs]_vars

C18_Witness ==
  /\ lastOp.op = "RenderTrajectories"
  /\ RenderRequest.Config.DestinationRootDir # ""
  /\ RenderRequest.Trajectories = <<1, 2>>
  /\ RenderRequest.MasterSequence = "exported"
  /\ \A t \in RenderTrajectoryIds : ShotSequences[t] = "valid"
  /\ CreatedJobs = <<>>
  /\ ~bRenderStarted
  /\ Len(SubmittedJobs) = 1

\* the jobs of the queue that the step allocated
AllocatedNow == {i \in 1..Len(Queue') : i > Len(Queue)}

ValidVideos(Files) == {f \in FindMP4Files(Files) : Files[f] >= MinValidSize}
SmallVideos(Files) == {f \in FindMP4Files(Files) : Files[f] < MinValidSize}
\* the frames rendered for the trajectory of a video: <basename>.<frame>.png
FramesBelongingTo(Files, MP4File) ==
  {f \in DOMAIN Files : /\ Len(f) = Len(MP4File) + 1
                        /\ GetBaseFilename(GetBaseFilename(f)) = GetBaseFilename(MP4File)
                        /\ f[Len(f)] = "png"}

C20_CleanupDeletesFramesOfValidVideosOnly ==
  [][lastOp'.op = "ValidateAndCleanupVideoOutput" =>
       /\ \A v \in ValidVideos(OutputFiles) :
            \A p \in FindPNGFiles(OutputFiles, GetBaseFilename(v)) :
               p \in DOMAIN OutputFiles' => p \in FailedToDelete'
       /\ \A c \in SmallVideos(OutputFiles) :
            FramesBelongingTo(OutputFiles, c) \subseteq DOMAIN OutputFiles'
       /\ TotalPNGsDeleted' = Cardinality(DOMAIN OutputFiles \ DOMAIN OutputFiles')]_vars

\* C21: when Index.json export is requested and the render starts,
\* RenderTrajectoriesWithSequence writes Index.json at
\* <DestinationRootDir>/<LevelName>/OUTPUTS/Index.json, in the OUTPUTS
\* directory that receives the rendered frames.
C21_IndexJsonInOutputs ==
  [][lastOp'.op = "RenderTrajectories" /\ lastOp'.v = 1 /\ bRenderStarted' =>
       /\ IndexJsonPath' = <<RenderRequest'.Config.DestinationRootDir, LevelName,
                            "OUTPUTS", "Index.json">>
       /\ IndexJsonPath' = OutputDirectory' \o <<"Index.json">>]_vars

\* C22: after OnExportClicked with at least one selected trajectory, the shots
\* inserted into the master shot track are back to back: the first starts at
\* the append start position (0 when clearing, otherwise the master's previous
\* playback upper bound), each later shot starts where the previously inserted
\* shot ends, and the master playback range ends at the start position plus
\* the sum of the inserted shots' durations, also when selected trajectories
\* are skipped.
AppendStart == IF ExportRequest'.bClearSequence THEN 0 ELSE MasterPlaybackUpper
InsertedDurations ==
  SumOver([i \in 1..Len(InsertedShots') |-> Whole(InsertedShots'[i].Duration)],
          1..Len(InsertedShots'))[1]

C22_ShotsBackToBack ==
  [][lastOp'.op = "OnExportClicked" /\ lastOp'.v = 1 =>
       /\ Len(InsertedShots') > 0 => InsertedShots'[1].Start = AppendStart
       /\ \A i \in 2..Len(InsertedShots') :
            InsertedShots'[i].Start
              = InsertedShots'[i - 1].Start + InsertedShots'[i - 1].Duration
       /\ MasterPlaybackUpper' = AppendStart + InsertedDurations
       /\ Len(MasterShotTrack') >= Len(InsertedShots')
       /\ \A i \in 1..Len(InsertedShots') :
            MasterShotTrack'[Len(MasterShotTrack') - Len(InsertedShots') + i]
              = InsertedShots'[i]]_vars

\* an export appended after an earlier one, whose second selected trajectory
\* was skipped between two inserted shots
C22_Witness ==
  /\ lastOp.op = "OnExportClicked"
  /\ lastOp.v = 1
  /\ ~ExportRequest.bClearSequence
  /\ Len(ExportRequest.Trajectories) = 3
  /\ Len(InsertedShots) = 2
  /\ InsertedShots[1].Trajectory = ExportRequest.Trajectories[1]
  /\ InsertedShots[2].Trajectory = ExportRequest.Trajectories[3]
  /\ InsertedShots[1].Start > 0
  /\ Len(MasterShotTrack) > 2

C24_DismissalExitsOnce ==
  [][/\ lastOp'.op = "DeliverWindowClosed" =>
          /\ ExitPreviewCalls' = ExitPreviewCalls
          /\ DestroyRequests' = DestroyRequests
          /\ CurrentState' = CurrentState
     /\ lastOp'.op = "CloseMenuWindow" =>
          /\ WindowClosedRuns' = WindowClosedRuns + 1
          /\ DestroyRequests' = DestroyRequests + 1
          /\ ExitPreviewCalls' <= ExitPreviewCalls + 1
          /\ ~bWindowClosedPending'
          /\ ~bIsClosing']_vars

\* the user closed the window of a running camera preview
C24_Witness ==
  /\ lastOp.op = "CloseMenuWindow"
  /\ lastOp.v = 1
  /\ ExitPreviewCalls = 1
  /\ WindowClosedRuns = 1
  /\ DestroyRequests = 1
  /\ CurrentState = DISABLED
  /\ ~MenuWindow

\* C25: whenever the camera-preview menu window is dismissed (native close
\* button or Exit Preview button) while the state machine is in
\* PREVIEW_CAMERA, the state machine ends in DISABLED; in no reachable state
\* is the window gone while CurrentState remains PREVIEW_CAMERA.
C25_DismissalLeavesPreview ==
  [][/\ (lastOp'.op \in {"CloseMenuWindow", "ClickExitPreview"}
         /\ CurrentState = PREVIEW_CAMERA /\ ~MenuWindow')
        => CurrentState' = DISABLED
     /\ CurrentState' = PREVIEW_CAMERA => MenuWindow']_vars

\* C26: after EnterCameraPreview or EnterTrajectoryPreview followed by
\* ExitPreview, every trajectory's bShowTrajectory and every keyframe's
\* bShowCameraFrustum and bShowTrajectoryLine equal their values from just
\* before the Enter call, for every trajectory and keyframe that existed at
\* entry and still exists at exit, whatever registry operations happened in
\* between.
C26_ExitRestoresVisibility ==
  [][CurrentState # DISABLED /\ CurrentState' = DISABLED =>
       /\ \A t \in EntryTrajectories :
            trAlive'[t] => trShowTrajectory'[t] = EntryFlags.ts[t]
       /\ \A k \in EntryKeyframes :
            kfAlive'[k] => /\ kfShowCameraFrustum'[k] = EntryFlags.kf[k]
                           /\ kfShowTrajectoryLine'[k] = EntryFlags.kl[k]]_vars

\* C27: after the TrajectoryName of a registered trajectory is changed and
\* OnTrajectoryNameChanged is called, the registry maps the new name to that
\* trajectory, the old name is no longer a key, every member keyframe's
\* TrajectoryName equals the new name, and no other trajectory's registry
\* entry has been removed or replaced.
C27_RenameRekeysRegistry ==
  [][/\ lastOp'.op = "EditTrajectoryName"
     /\ <<trTrajectoryName[lastOp'.t], lastOp'.t>> \in Trajectories
     /\ trTrajectoryName'[lastOp'.t] # trTrajectoryName[lastOp'.t]
     => /\ <<trTrajectoryName'[lastOp'.t], lastOp'.t>> \in Trajectories'
        /\ trTrajectoryName[lastOp'.t] \notin Keys(Trajectories')
        /\ \A k \in Range(trKeyframes'[lastOp'.t]) :
             kfTrajectoryName'[k] = trTrajectoryName'[lastOp'.t]
        /\ \A p \in Trajectories : p[2] # lastOp'.t => p \in Trajectories']_vars

\* the name OnKeyframeTrajectoryNameChanged got as OldTrajectoryName in the
\* step that ends in the primed state
C28_OldName ==
  IF lastOp'.op = "EditKeyframeTrajectoryName"
  THEN kfPreviousTrajectoryName[lastOp'.k]
  ELSE kfTrajectoryName[lastOp'.k]

\* C28: after OnKeyframeTrajectoryNameChanged(k, oldName) returns for a
\* keyframe whose name changed from oldName, k is not a member of the
\* trajectory registered as oldName, k is a member of the trajectory
\* registered under its current TrajectoryName when it is assigned to one
\* (created if it did not exist), and no registered trajectory is empty.
C28_KeyframeMoved ==
  [][/\ lastOp'.op \in {"EditKeyframeTrajectoryName", "ContextMenuTrajectoryName",
                        "ContextMenuNewTrajectory"}
     /\ kfTrajectoryName'[lastOp'.k] # C28_OldName
     => /\ \A p \in Trajectories' :
             p[1] = C28_OldName /\ p[2] # NoTrajectory
               => ~Contains(trKeyframes'[p[2]], lastOp'.k)
        /\ kfTrajectoryName'[lastOp'.k] # NAME_None =>
             \E p \in Trajectories' :
               /\ p[1] = kfTrajectoryName'[lastOp'.k]
               /\ p[2] # NoTrajectory
               /\ Contains(trKeyframes'[p[2]], lastOp'.k)
        /\ \A p \in Trajectories' :
             p[2] # NoTrajectory => trKeyframes'[p[2]] # <<>>]_vars

\* C29: after AddKeyframe adds a new member to a trajectory, in any state
\* reachable through adds and removes, the member orders are contiguous: the
\* orders of the N members are exactly {0,...,N-1}.
C29_AddKeepsOrdersContiguous ==
  [][\A t \in TR, k \in KF :
       /\ trAlive[t] /\ trAlive'[t]
       /\ ~Contains(trKeyframes[t], k)
       /\ Contains(trKeyframes'[t], k)
       => MemberOrders(t)' = 0..(Len(trKeyframes'[t]) - 1)]_vars

\* C30: if a trajectory's orders are {0,...,N-1} and the order of one member
\* is changed from s to a target t in [0, N) held by another member, then
\* after OnKeyframeOrderManuallyChanged the changed keyframe has order t, the
\* keyframe that held t has order s, and all other members keep their orders.
C30_OrderSwap ==
  [][/\ lastOp'.op = "EditOrder"
     /\ lastOp'.t # NoTrajectory
     /\ Contains(trKeyframes[lastOp'.t], lastOp'.k)
     /\ MemberOrders(lastOp'.t) = 0..(Len(trKeyframes[lastOp'.t]) - 1)
     /\ lastOp'.v # kfOrderInTrajectory[lastOp'.k]
     /\ lastOp'.v < Len(trKeyframes[lastOp'.t])
     => /\ kfOrderInTrajectory'[lastOp'.k] = lastOp'.v
        /\ \A k \in Range(trKeyframes[lastOp'.t]) \ {lastOp'.k} :
             kfOrderInTrajectory'[k] =
               IF kfOrderInTrajectory[k] = lastOp'.v
               THEN kfOrderInTrajectory[lastOp'.k]
               ELSE kfOrderInTrajectory[k]]_vars

\* keyframe 1 was placed, keyframe 2 duplicated from it (orders 0 and 1), and
\* the order of keyframe 2 was edited to 0
C30_Witness ==
  /\ opCount = 3
  /\ lastOp.op = "EditOrder"
  /\ lastOp.k = 2
  /\ lastOp.v = 0
  /\ lastOp.t # NoTrajectory
  /\ kfAlive = <<TRUE, TRUE, FALSE>>
  /\ trKeyframes[lastOp.t] = <<2, 1>>
  /\ kfOrderInTrajectory[2] = 0
  /\ kfOrderInTrajectory[1] = 1

\* C31: the camera-sync timer is registered exactly while CurrentState is
\* PREVIEW_CAMERA: its handle is valid and one timer is registered in
\* PREVIEW_CAMERA, none is registered in DISABLED or PREVIEW_TRAJECTORY, and
\* at most one instance of it is registered at any time.
C31_SyncTimerOnlyInCameraPreview ==
  /\ CameraSyncTimerHandle <=> CurrentState = PREVIEW_CAMERA
  /\ RegisteredSyncTimers = IF CurrentState = PREVIEW_CAMERA THEN 1 ELSE 0
  /\ RegisteredSyncTimers <= 1

\* a second camera preview is running after a first one was left with the
\* viewport placed behind its keyframe
C31_Witness ==
  /\ CurrentState = PREVIEW_CAMERA
  /\ lastOp.op = "EnterCameraPreview"
  /\ \E k \in KF : CachedViewportSettings.View.Location = <<"behind", k>>
  /\ CameraSyncTimerHandle
  /\ RegisteredSyncTimers = 1

\* C33: whenever CurrentState is DISABLED, the cached viewport snapshot is
\* not valid (CachedViewportSettings.bIsValid is false).
C33_NoSnapshotWhenDisabled ==
  CurrentState = DISABLED => ~CachedViewportSettings.bIsValid

C34_MenuOutsidePreview == MenuWindow /\ MenuWidget # NoKeyframe /\ CurrentState # PREVIEW_CAMERA

\* C34: if the state machine is not in PREVIEW_CAMERA while the preview menu
\* is visible, the next state poll hides the menu, so the menu does not stay
\* visible indefinitely outside PREVIEW_CAMERA.
C34_PollHidesMenu ==
  /\ [][lastOp'.op = "CheckEditorState" /\ C34_MenuOutsidePreview =>
          ~MenuWindow' /\ MenuWidget' = NoKeyframe /\ CurrentState' = CurrentState]_vars
  /\ C34_MenuOutsidePreview ~> ~C34_MenuOutsidePreview

\* the poll has hidden a menu that was shown while no camera preview ran
C34_Witness ==
  /\ lastOp.op = "CheckEditorState"
  /\ lastOp.v = 1
  /\ lastOp.k # NoKeyframe
  /\ ~MenuWindow
  /\ CurrentState = DISABLED
  /\ bWindowClosedPending

\* C35: for every keyframe index k of a trajectory, the entry time
\* KeyframeTimes[k] that GenerateFrameData uses to bracket frames equals the
\* TimeInTrajectory value emitted for keyframe k in the KeyFrames block.
C35_KeyframeTimesMatchKeyFrames ==
  lastOp.op = "SaveAllTrajectoriesAsString" /\ BuiltKeyframeTimes # NoResult =>
    /\ Len(BuiltKeyframeTimes) = Len(TimeInTrajectory)
    /\ \A k \in 1..Len(BuiltKeyframeTimes) : BuiltKeyframeTimes[k] = TimeInTrajectory[k]

\* the shot sequence of a trajectory of the request cannot be found
ShotMissing(t) == t # 0 /\ ShotSequences[t] = "none"

\* C36: in RenderTrajectoriesWithSequence a trajectory whose shot sequence
\* cannot be found is skipped without failing the batch: render jobs are
\* still created and submitted for the other trajectories of the list and the
\* call returns true.
C36_MissingShotSkipped ==
  [][/\ lastOp'.op = "RenderTrajectories"
     /\ RenderRequest'.Config.DestinationRootDir # ""
     /\ RenderRequest'.MasterSequence = "exported"
     /\ \E i \in 1..Len(RenderRequest'.Trajectories) :
          ShotMissing(RenderRequest'.Trajectories[i])
     /\ \E i \in 1..Len(RenderRequest'.Trajectories) :
          /\ RenderRequest'.Trajectories[i] # 0
          /\ ShotSequences[RenderRequest'.Trajectories[i]] = "valid"
     => /\ bRenderStarted'
        /\ Len(SubmittedJobs') = Len(SubmittedJobs) + 1
        /\ \A i \in 1..Len(RenderRequest'.Trajectories) :
             ShotSequences[RenderRequest'.Trajectories[i]] = "valid" =>
               \E j \in AllocatedNow :
                 /\ Queue'[j].Trajectory = RenderRequest'.Trajectories[i]
                 /\ j \in Range(CreatedJobs')]_vars

\* C40: every job submitted to the render executor by a
\* RenderTrajectoriesWithSequence call is a job that this call allocated and
\* successfully configured: a job whose configuration failed is not left in
\* the submitted queue, and jobs left over from earlier calls are not
\* submitted again.
C40_SubmitsOnlyCreatedJobs ==
  [][lastOp'.op = "RenderTrajectories" /\ Len(SubmittedJobs') > Len(SubmittedJobs) =>
       \A i \in 1..Len(SubmittedJobs'[Len(SubmittedJobs')]) :
         /\ i \in AllocatedNow
         /\ i \in Range(CreatedJobs')
         /\ SubmittedJobs'[Len(SubmittedJobs')][i].bConfigured]_vars

\* the number of entries of the call list Calls that are the trajectory t
CallsOn(Calls, t) == Cardinality({i \in 1..Len(Calls) : Calls[i] = t})

\* C37: during one DeleteTrajectoryActor(T) call, including the nested
\* CleanupEmptyTrajectories passes that run while its member keyframes are
\* being moved out, T is unregistered and destroyed exactly once.
C37_DeletedExactlyOnce ==
  \A t \in TR, e \in Env :
    trAlive[t] =>
      \E w \in {DeleteTrajectoryActor(World, t, e)} :
        /\ CallsOn(w.UnregisterCalls, t) = 1
        /\ CallsOn(w.DestroyCalls, t) = 1

\* C38: after any sequence of operations every keyframe listed in any
\* trajectory's Keyframes is a registered, not destroyed keyframe; in
\* particular, after UnregisterKeyframe(k) no trajectory's Keyframes list
\* still contains k.
C38_MembersAreRegistered ==
  \A t \in TR :
    trAlive[t] =>
      \A i \in 1..Len(trKeyframes[t]) :
        /\ kfAlive[trKeyframes[t][i]]
        /\ Contains(AllKeyframes, trKeyframes[t][i])

\* the keyframes AddKeyframe can add to trajectory t as third or later member
\* and the spline keys the engine can return for a spline through the
\* members of t
AddableTo(t) ==
  {k \in KF : kfAlive[k] /\ Contains(AllKeyframes, k) /\ ~Contains(trKeyframes[t], k)}
KeysOnSpline(t) == {c \in ClosestKeys : c <= 2 * (Len(trKeyframes[t]) - 1)}

\* C39: when AddKeyframe adds a third or later keyframe and
\* FindBestInsertionOrder returns position p, the new keyframe's
\* OrderInTrajectory after renumbering is p and the relative order of the
\* previously existing keyframes is unchanged.
C39_InsertedAtBestOrder ==
  \A t \in TR, e \in Env :
    trAlive[t] /\ Len(trKeyframes[t]) >= 2 /\ e.closest \in KeysOnSpline(t) =>
      \A k \in AddableTo(t) :
        \E w \in {TrajectoryAddKeyframe(World, t, k, e)} :
          /\ w.ko[k] = FindBestInsertionOrder(
                         [World EXCEPT !.tk[t] = Append(@, k)], t, e.closest)
          /\ \A a, b \in Range(trKeyframes[t]) :
               kfOrderInTrajectory[a] < kfOrderInTrajectory[b] => w.ko[a] < w.ko[b]

====
